---- MODULE Spec2Model ----
(***************************************************************************)
(* A model of the leech-only BitTorrent client: the Piece Store            *)
(* (piece_manager.py), the Peer Session (peer.py) and the Engine           *)
(* (main.py).                                                              *)
(*                                                                         *)
(* Bytes are abstracted: a byte string is a record [len, val] of `len`     *)
(* bytes that all carry the value `val` (0 is the zero byte of a fresh      *)
(* bytearray, 1 the byte of the original content, 2 any other byte).       *)
(* A piece buffer is kept per block slot, since add_block_data only ever    *)
(* writes a slice that coincides with one block.                           *)
(***************************************************************************)
EXTENDS Integers, Sequences, FiniteSets, TLC

\* ------------------------------------------------------------------ bounds
\* The torrent descriptor under test: piece length and total length, bytes.
PieceLength == 32000
TotalLength == 40000

\* ------------------------------------------------------- program constants
BLOCK_SIZE == 16384
max_requests == 5

None == "None"

Min(a, b) == IF a < b THEN a ELSE b

\* ------------------------------------------------------ torrent descriptor
\* len(piece_hashes): the number of pieces covering total_length
get_total_pieces == (TotalLength + PieceLength - 1) \div PieceLength

Pieces == 0 .. (get_total_pieces - 1)

get_piece_length(piece_index) ==
    IF piece_index = get_total_pieces - 1
    THEN TotalLength - (piece_index * PieceLength)
    ELSE PieceLength

\* ------------------------------------------------------------- Piece Store
RECURSIVE create_blocks_from(_, _)
create_blocks_from(length, offset) ==
    IF offset < length
    THEN LET block_length == Min(BLOCK_SIZE, length - offset)
         IN  << [offset |-> offset, length |-> block_length,
                 requested |-> FALSE, received |-> FALSE] >>
             \o create_blocks_from(length, offset + block_length)
    ELSE << >>

create_blocks(length) == create_blocks_from(length, 0)

\* The original content of the torrent: every byte has value 1.
OrigVal(piece_index, i) == 1
DataVals == {1, 2}

\* bytearray(length), seen per block slot
ZeroBuffer(blocks) == [i \in 1 .. Len(blocks) |-> 0]

\* SHA1 as an injective digest of the buffer (base-3 positional value of the
\* per-slot byte values), so two buffers have one digest iff they are equal.
RECURSIVE sha1_from(_, _)
sha1_from(buf, i) ==
    IF i > Len(buf) THEN 0 ELSE buf[i] + 3 * sha1_from(buf, i + 1)

sha1_hash(buf) == sha1_from(buf, 1)

\* torrent.get_piece_hash: the digest of the original bytes of the piece
get_piece_hash(piece_index) ==
    sha1_hash([i \in 1 .. Len(create_blocks(get_piece_length(piece_index))) |->
                  OrigVal(piece_index, i)])

NewPiece(index) ==
    LET bl == create_blocks(get_piece_length(index))
    IN  [index |-> index, length |-> get_piece_length(index),
         hash_value |-> get_piece_hash(index),
         blocks |-> bl, completed |-> FALSE, verified |-> FALSE,
         data |-> ZeroBuffer(bl)]

\* Piece.is_complete
piece_is_complete(piece) ==
    \A i \in 1 .. Len(piece.blocks) : piece.blocks[i].received

\* a verify that does not compare the digests
verify_unchecked(piece) == piece.completed

\* Piece.verify
verify(piece) ==
    IF ~piece.completed THEN FALSE
    ELSE sha1_hash(piece.data) = piece.hash_value

\* a get_missing_blocks that forgets the requested flag
get_missing_blocks_unreceived(piece) ==
    SelectSeq([i \in 1 .. Len(piece.blocks) |-> i],
              LAMBDA i : ~piece.blocks[i].received)

\* Piece.get_missing_blocks: indexes of the missing blocks, in block order
get_missing_blocks(piece) ==
    SelectSeq([i \in 1 .. Len(piece.blocks) |-> i],
              LAMBDA i : ~piece.blocks[i].received /\ ~piece.blocks[i].requested)

\* The block that add_block_data's loop acts on: the blocks have distinct
\* offsets, so at most one matches (offset, len(data)).
MatchingBlocks(piece, offset, length) ==
    {i \in 1 .. Len(piece.blocks) :
        piece.blocks[i].offset = offset /\ piece.blocks[i].length = length}

\* Piece.add_block_data: [ok, piece]
add_block_data(piece, offset, data) ==
    IF offset + data.len > piece.length
    THEN [ok |-> FALSE, piece |-> piece]
    ELSE LET m == {i \in MatchingBlocks(piece, offset, data.len) :
                      ~piece.blocks[i].received}
         IN  IF m = {} THEN [ok |-> FALSE, piece |-> piece]
             ELSE LET i  == CHOOSE j \in m : TRUE
                      p1 == [piece EXCEPT !.blocks[i].received = TRUE,
                                          !.data[i] = data.val]
                      p2 == IF piece_is_complete(p1)
                            THEN LET pc == [p1 EXCEPT !.completed = TRUE]
                                 IN  [pc EXCEPT !.verified = verify(pc)]
                            ELSE p1
                  IN  [ok |-> TRUE, piece |-> p2]

\* a reset that leaves the requested flags as they are
ResetPiece_keep_requested(piece) ==
    [piece EXCEPT !.completed = FALSE, !.verified = FALSE,
                  !.data = ZeroBuffer(piece.blocks),
                  !.blocks = [i \in 1 .. Len(piece.blocks) |->
                                 [piece.blocks[i] EXCEPT !.received = FALSE]]]

\* The reset of a piece that failed verification (add_piece_data, else branch)
ResetPiece(piece) ==
    [piece EXCEPT !.completed = FALSE, !.verified = FALSE,
                  !.data = ZeroBuffer(piece.blocks),
                  !.blocks = [i \in 1 .. Len(piece.blocks) |->
                                 [piece.blocks[i] EXCEPT !.received = FALSE,
                                                         !.requested = FALSE]]]

\* an add_piece_data without the early return for a completed piece, which
\* reports every completed and verified piece it sees
add_piece_data_no_early_return(ps, cp, piece_index, offset, data) ==
    IF piece_index \notin DOMAIN ps
    THEN [ret |-> FALSE, pieces |-> ps, completed_pieces |-> cp,
          callback |-> FALSE, cbdata |-> << >>]
    ELSE LET r     == add_block_data(ps[piece_index], offset, data)
             piece == r.piece
         IN  IF piece.completed
             THEN IF piece.verified
                  THEN [ret |-> TRUE,
                        pieces |-> [ps EXCEPT ![piece_index] = piece],
                        completed_pieces |-> cp \cup {piece_index},
                        callback |-> TRUE, cbdata |-> piece.data]
                  ELSE [ret |-> r.ok,
                        pieces |-> [ps EXCEPT ![piece_index] = ResetPiece(piece)],
                        completed_pieces |-> cp,
                        callback |-> FALSE, cbdata |-> << >>]
             ELSE [ret |-> r.ok,
                   pieces |-> [ps EXCEPT ![piece_index] = piece],
                   completed_pieces |-> cp,
                   callback |-> FALSE, cbdata |-> << >>]

\* PieceManager.add_piece_data on store (ps, cp):
\* [ret, pieces, completed_pieces, callback, cbdata]
add_piece_data(ps, cp, piece_index, offset, data) ==
    IF piece_index \notin DOMAIN ps
    THEN [ret |-> FALSE, pieces |-> ps, completed_pieces |-> cp,
          callback |-> FALSE, cbdata |-> << >>]
    ELSE IF ps[piece_index].completed
    THEN [ret |-> TRUE, pieces |-> ps, completed_pieces |-> cp,
          callback |-> FALSE, cbdata |-> << >>]
    ELSE LET r     == add_block_data(ps[piece_index], offset, data)
             piece == r.piece
         IN  IF r.ok /\ piece.completed
             THEN IF piece.verified
                  THEN [ret |-> r.ok,
                        pieces |-> [ps EXCEPT ![piece_index] = piece],
                        completed_pieces |-> cp \cup {piece_index},
                        callback |-> TRUE, cbdata |-> piece.data]
                  ELSE [ret |-> r.ok,
                        pieces |-> [ps EXCEPT ![piece_index] = ResetPiece(piece)],
                        completed_pieces |-> cp,
                        callback |-> FALSE, cbdata |-> << >>]
             ELSE [ret |-> r.ok,
                   pieces |-> [ps EXCEPT ![piece_index] = piece],
                   completed_pieces |-> cp,
                   callback |-> FALSE, cbdata |-> << >>]

\* list.sort(key=...) is stable: insertion of x after every element whose
\* key is not greater.
\* needed_pieces.sort(key = number of missing blocks): list.sort is stable,
\* so a member comes after those with a smaller key and after those with an
\* equal key that were before it
SortByMissing(seq, ps) ==
    LET key(i)  == Len(get_missing_blocks(ps[seq[i]]))
        rank(i) == Cardinality({j \in DOMAIN seq :
                                   \/ key(j) < key(i)
                                   \/ key(j) = key(i) /\ j < i}) + 1
    IN  [k \in DOMAIN seq |-> seq[CHOOSE i \in DOMAIN seq : rank(i) = k]]

\* the first piece of seq with a missing block, -1 when there is none
FirstWithMissing(seq, ps) ==
    LET with == {i \in DOMAIN seq : get_missing_blocks(ps[seq[i]]) # << >>}
    IN  IF with = {} THEN -1
        ELSE seq[CHOOSE i \in with : \A j \in with : i <= j]

\* (variant) the request asks for the whole piece
get_next_request_whole_piece(ps, cp, order) ==
    LET needed_pieces ==
            SelectSeq(order, LAMBDA p : p \in DOMAIN ps /\ p \notin cp)
    IN  IF needed_pieces = << >> THEN [ret |-> << >>, pieces |-> ps]
        ELSE LET p == FirstWithMissing(SortByMissing(needed_pieces, ps), ps)
             IN  IF p = -1 THEN [ret |-> << >>, pieces |-> ps]
                 ELSE LET b == Head(get_missing_blocks(ps[p]))
                      IN  [ret |-> << p, 0, ps[p].length >>,
                           pieces |-> [ps EXCEPT ![p].blocks[b].requested = TRUE]]

\* PieceManager.get_next_request on store (ps, cp); `order` is the order in
\* which the iteration of the set available_pieces yields its members.
\* [ret, pieces], ret the triple or << >> for None
get_next_request(ps, cp, order) ==
    LET needed_pieces ==
            SelectSeq(order, LAMBDA p : p \in DOMAIN ps /\ p \notin cp)
    IN  IF needed_pieces = << >> THEN [ret |-> << >>, pieces |-> ps]
        ELSE LET p == FirstWithMissing(SortByMissing(needed_pieces, ps), ps)
             IN  IF p = -1 THEN [ret |-> << >>, pieces |-> ps]
                 ELSE LET b == Head(get_missing_blocks(ps[p]))
                      IN  [ret |-> << p, ps[p].blocks[b].offset,
                                      ps[p].blocks[b].length >>,
                           pieces |-> [ps EXCEPT ![p].blocks[b].requested = TRUE]]

\* PieceManager.is_complete
is_complete(ps, cp) == Cardinality(cp) = Cardinality(DOMAIN ps)

\* ------------------------------------------------------------ Peer Session
Sessions == {"good", "arb"}

\* BitArray(bytes=payload) of a one-byte bitfield payload, MSB first
AllOnes  == [i \in 1 .. 8 |-> TRUE]
AllZeros == [i \in 1 .. 8 |-> FALSE]

\* PeerConnection.__init__
NewSession ==
    [socket |-> "None", connected |-> FALSE, handshake_completed |-> FALSE,
     am_choking |-> TRUE, am_interested |-> FALSE,
     peer_choking |-> TRUE, peer_interested |-> FALSE,
     peer_pieces |-> << >>, pending_requests |-> {}, running |-> FALSE]

\* (variant) the bit is read negated
has_piece_inverted(c, piece_index) ==
    piece_index < Len(c.peer_pieces) /\ ~c.peer_pieces[piece_index + 1]

\* PeerConnection.has_piece
has_piece(c, piece_index) ==
    piece_index < Len(c.peer_pieces) /\ c.peer_pieces[piece_index + 1]

\* PeerConnection.can_request
can_request(c) ==
    c.connected /\ c.handshake_completed /\ ~c.peer_choking /\ c.am_interested

\* PeerConnection.disconnect
disconnect(c) ==
    [c EXCEPT !.running = FALSE, !.connected = FALSE, !.socket = "None"]

\* sum(len(requests) for requests in self.pending_requests.values()):
\* pending_requests is kept as the set of (piece_index, begin, length)
total_pending(c) == Cardinality(c.pending_requests)

\* the guards of request_piece without the limit on pending requests
request_piece_refuses_no_limit(c, piece_index) ==
    \/ ~c.connected \/ c.peer_choking
    \/ piece_index >= Len(c.peer_pieces) \/ ~c.peer_pieces[piece_index + 1]

\* (variant) request_piece refuses only a session that is not connected
request_piece_refuses_unconnected(c, piece_index) ==
    ~c.connected

\* The guards of request_piece before it sends: TRUE when it returns False
request_piece_refuses(c, piece_index) ==
    \/ ~c.connected \/ c.peer_choking
    \/ total_pending(c) >= max_requests
    \/ piece_index >= Len(c.peer_pieces) \/ ~c.peer_pieces[piece_index + 1]

\* a _handle_piece that drops every pending request of the piece
handle_piece_del_all(c, piece_index, begin, block_data) ==
    [c |-> [c EXCEPT !.pending_requests = {q \in @ : q[1] # piece_index}],
     call |-> << piece_index, begin, block_data >>]

\* _handle_piece: [c, call], call the arguments on_piece_received is invoked
\* with (the engine sets the callback on every session it creates)
handle_piece(c, piece_index, begin, block_data) ==
    [c |-> [c EXCEPT !.pending_requests =
                         @ \ {<< piece_index, begin, block_data.len >>}],
     call |-> << piece_index, begin, block_data >>]

\* _handle_have
handle_have(c, piece_index) ==
    IF piece_index < Len(c.peer_pieces)
    THEN [c EXCEPT !.peer_pieces[piece_index + 1] = TRUE]
    ELSE c

\* ------------------------------------------------------------------- state
VARIABLES
    pieces,            \* PieceManager.pieces: index -> Piece
    completed_pieces,  \* PieceManager.completed_pieces
    written,           \* the calls FileManager.write_piece has received
    cbCalls,           \* history: on_piece_completed invocations per piece
    grants,            \* history: times a block was handed out since last not requested
    goodIngested,      \* history: (piece, offset) ingested with the original bytes
    tainted,           \* history: pieces for which other bytes were ever ingested
    last,              \* history: the last Piece Store call and what it returned
    peer,              \* session -> PeerConnection fields
    dpc,               \* session -> position of its dial thread (_connect_peer)
    rpc,               \* session -> position of its receive thread
    wire,              \* requests the remote peer of "good" has received and not answered
    cb,                \* history: the last on_piece_received invocation
    lastWrite,         \* history: can_request() when a request was last written to a socket
    peers,             \* BitTorrentClient.peers, in insertion order
    running,           \* BitTorrentClient.running
    announced,         \* last_announce is set (the first announce was made)
    epc,               \* position of the engine thread
    etodo,             \* sessions the request step has still to visit
    ecall,             \* the request_piece call in progress
    dcall,             \* session -> thread -> its position inside disconnect()
    closes,            \* history: session -> socket.close() calls made on its socket
    executed,          \* history: sessions on which a disconnect() call has returned
    spc,               \* position of the thread that runs BitTorrentClient.stop()
    handled,           \* history: the last message _receive_loop has read
    files,             \* TorrentFile.files: the list of (length, offset)
    fwrites,           \* history: the _write_to_file calls of the last write_piece
    disk,              \* the files of the download directory, by file entry
    calls,             \* the _announce_to_tracker calls, in the order they were started
    conn,              \* the endpoints whose session has connected = True
    events,            \* history: the event of every tracker announce, in order
    lock,              \* PieceManager.lock and FileManager.lock: the thread that holds it
    stack,             \* thread -> the calls of locked operations it is in, innermost last
    handles,           \* FileManager.file_handles: the file entries with an open handle
    closed,            \* history: close_all_files() has run
    observed           \* history: the main thread has seen is_complete() true

storeVars   == << pieces, completed_pieces, written, cbCalls >>
histVars    == << grants, goodIngested, tainted, last, cb, lastWrite >>
sessionVars == << peer, dpc, rpc, wire >>
callVars    == << epc, ecall >>
engineVars  == << peers, running, announced, etodo >>
lifeVars    == << dcall, closes, executed, spc >>
fileVars    == << files, fwrites, disk >>
announceVars == << calls, conn, events >>
lockVars == << lock, stack, handles, closed, observed >>
vars == << storeVars, histVars, sessionVars, callVars, engineVars, lifeVars,
           handled, fileVars, announceVars, lockVars >>

BlockIds == UNION {{<< p, i >> : i \in 1 .. Len(NewPiece(p).blocks)} : p \in Pieces}

NoCall == [s |-> None, req |-> << >>, to |-> "idle"]
NoLast == [op |-> None]

\* the threads that call disconnect() on a session: _connect_peer (connect,
\* send_interested), _receive_loop, BitTorrentClient.stop
Threads == {"dial", "recv", "stop"}

\* no message read yet
NoMessage == [len |-> -1, tag |-> -1, payload |-> << >>,
              block |-> [len |-> 0, val |-> 0]]

\* write_piece was not called for the piece
NoWrites == [len |-> -1, writes |-> << >>]

\* a file entry for which no file was created in the download directory
NoFile == [exists |-> FALSE, size |-> 0, segs |-> << >>]

\* the download directory before anything was written
EmptyDisk(fs) == [k \in 1 .. Len(fs) |-> NoFile]

\* TorrentFile._parse_single_file: one file entry at offset 0
parse_single_file == << [length |-> TotalLength, offset |-> 0] >>

InitComponents ==
    /\ pieces = [i \in Pieces |-> NewPiece(i)]
    /\ completed_pieces = {}
    /\ written = {}
    /\ cbCalls = [i \in Pieces |-> 0]
    /\ grants = [b \in BlockIds |-> 0]
    /\ goodIngested = {}
    /\ tainted = {}
    /\ last = NoLast
    /\ cb = << >>
    /\ lastWrite = "none"
    /\ peer = [s \in Sessions |-> NewSession]
    /\ dpc = [s \in Sessions |-> "new"]
    /\ rpc = [s \in Sessions |-> "off"]
    /\ wire = {}
    /\ peers = << >>
    /\ running = TRUE
    /\ announced = FALSE
    /\ etodo = << >>
    /\ ecall = NoCall
    /\ dcall = [s \in Sessions |-> [t \in Threads |-> "out"]]
    /\ closes = [s \in Sessions |-> 0]
    /\ executed = {}
    /\ spc = "idle"
    /\ handled = NoMessage
    /\ fwrites = [i \in Pieces |-> NoWrites]
    /\ calls = << >>
    /\ conn = {}
    /\ events = << >>
    /\ lock = [l \in {"store", "files"} |-> "free"]
    /\ stack = [t \in Sessions \cup {"loop", "stats", "main"} |-> << >>]
    /\ handles = {}
    /\ closed = FALSE
    /\ observed = FALSE

\* PieceManager, sessions and engine as constructed, for a single-file torrent
InitCommon ==
    /\ InitComponents
    /\ files = parse_single_file
    /\ disk = EmptyDisk(files)

\* the components as constructed, no engine thread started
Init == InitCommon /\ epc = "idle"

\* start(): the download thread is at the head of _download_loop
InitEngine == InitCommon /\ epc = "loop"

\* ------------------------------------------------- Piece Store operations
\* the block of piece p at `offset` with `length`, or 0
BlockAt(p, offset, length) ==
    IF p \in Pieces /\ MatchingBlocks(pieces[p], offset, length) # {}
    THEN CHOOSE i \in MatchingBlocks(pieces[p], offset, length) : TRUE
    ELSE 0

\* history of the handing-out of blocks: a block that is not requested
\* afterwards has no holder
GrantsAfter(ps, given) ==
    [b \in BlockIds |->
        IF b = given THEN (IF pieces[b[1]].blocks[b[2]].requested
                           THEN Min(grants[b] + 1, 2) ELSE 1)
        ELSE IF ps[b[1]].blocks[b[2]].requested THEN grants[b] ELSE 0]

\* add_piece_data(piece_index, offset, data), with on_piece_completed bound
\* to _on_piece_completed, which calls FileManager.write_piece
StoreAdd(piece_index, offset, data) ==
    \E r \in {add_piece_data(pieces, completed_pieces, piece_index, offset, data)} :
        /\ pieces' = r.pieces
        /\ completed_pieces' = r.completed_pieces
        /\ written' = IF r.callback
                      THEN written \cup {[piece_index |-> piece_index,
                                          piece_data |-> r.cbdata]}
                      ELSE written
        /\ cbCalls' = IF r.callback
                      THEN [cbCalls EXCEPT ![piece_index] = Min(@ + 1, 2)]
                      ELSE cbCalls

\* the history of a call add_piece_data(piece_index, offset, data)
StoreAddHistory(piece_index, offset, data) ==
    \E r \in {add_piece_data(pieces, completed_pieces, piece_index, offset, data)},
       b \in {BlockAt(piece_index, offset, data.len)} :
    LET others == IF b = 0 THEN FALSE
                  ELSE /\ ~pieces[piece_index].blocks[b].received
                       /\ \A j \in 1 .. Len(pieces[piece_index].blocks) :
                              j # b => pieces[piece_index].blocks[j].received
        buf == IF b = 0 THEN << >>
               ELSE [pieces[piece_index].data EXCEPT ![b] = data.val]
    IN  /\ grants' = GrantsAfter(r.pieces, << >>)
        /\ tainted' = IF b # 0 /\ data.val # OrigVal(piece_index, b)
                      THEN tainted \cup {piece_index} ELSE tainted
        \* kept for the pieces that only ever got their original bytes
        /\ goodIngested' =
               {g \in goodIngested \cup
                      (IF b # 0 THEN {<< piece_index, b >>} ELSE {}) :
                   g[1] \notin tainted'}
        /\ last' = [op |-> "add_piece_data", piece |-> piece_index,
                    offset |-> offset, data |-> data, ret |-> r.ret,
                    \* this call brought the last missing block of the piece
                    lastMissing |-> others,
                    \* ... and the buffer it completed has another digest
                    mismatch |-> others /\
                        sha1_hash(buf) # pieces[piece_index].hash_value,
                    callback |-> r.callback]

Perms(S) ==
    {f \in [1 .. Cardinality(S) -> S] : \A i, j \in DOMAIN f : f[i] = f[j] => i = j}

\* get_next_request(available_pieces); the members outside self.pieces are
\* filtered out before the order matters
StoreNext(available, order) ==
    /\ order \in Perms(available \cap Pieces)
    /\ pieces' = get_next_request(pieces, completed_pieces, order).pieces
    /\ UNCHANGED << completed_pieces, written, cbCalls >>

\* the history of a call get_next_request(available_pieces)
StoreNextHistory(order) ==
    LET r == get_next_request(pieces, completed_pieces, order)
        b == IF r.ret = << >> THEN << >>
             ELSE << r.ret[1], BlockAt(r.ret[1], r.ret[2], r.ret[3]) >>
    IN  /\ grants' = GrantsAfter(r.pieces, b)
        /\ last' = [op |-> "get_next_request", ret |-> r.ret,
                    fresh |-> IF r.ret = << >> THEN FALSE
                              ELSE /\ ~pieces[b[1]].blocks[b[2]].received
                                   /\ ~pieces[b[1]].blocks[b[2]].requested]
        /\ UNCHANGED << goodIngested, tainted >>

\* inputs of the Piece Store interface
BlockOffsets == {NewPiece(b[1]).blocks[b[2]].offset : b \in BlockIds}
BlockLengths == {NewPiece(b[1]).blocks[b[2]].length : b \in BlockIds}
OffsetInputs == BlockOffsets \cup {8}
DataInputs == [len : BlockLengths, val : DataVals]
PieceInputs == Pieces \cup {get_total_pieces}

ApiAddPieceData(piece_index, offset, data) ==
    /\ StoreAdd(piece_index, offset, data)
    /\ StoreAddHistory(piece_index, offset, data)
    /\ UNCHANGED << cb, lastWrite, sessionVars, callVars, engineVars, lifeVars,
                   handled, fileVars, announceVars, lockVars >>

ApiGetNextRequest(available, order) ==
    /\ StoreNext(available, order)
    /\ StoreNextHistory(order)
    /\ UNCHANGED << cb, lastWrite, sessionVars, callVars, engineVars, lifeVars,
                   handled, fileVars, announceVars, lockVars >>

NextStore ==
    \/ \E p \in PieceInputs, o \in OffsetInputs, d \in DataInputs :
           ApiAddPieceData(p, o, d)
    \/ \E a \in SUBSET PieceInputs : \E o \in Perms(a \cap Pieces) :
           ApiGetNextRequest(a, o)

SpecStore == Init /\ [][NextStore]_vars

\* ------------------------------------------------------- Peer Session steps
\* The remote peer of "good" has every piece, sends its bitfield and one
\* unchoke, never chokes, never closes the connection and answers the
\* requests it receives with the original bytes.  The remote peer of "arb"
\* is unconstrained.
Unreliable(s) == s # "good"

SetPeer(s, c) == peer' = [peer EXCEPT ![s] = c]

\* connect(): socket created and connected, self.connected = True
DialOk(s) ==
    /\ dpc[s] = "dial"
    /\ SetPeer(s, [peer[s] EXCEPT !.socket = "open", !.connected = TRUE])
    /\ dpc' = [dpc EXCEPT ![s] = "handshake"]
    /\ UNCHANGED << storeVars, histVars, rpc, wire, callVars, engineVars, lifeVars,
                   handled, fileVars, announceVars, lockVars >>

\* connect(): socket.connect raises; the except branch disconnects
DialFail(s) ==
    /\ dpc[s] = "dial"
    /\ Unreliable(s)
    /\ SetPeer(s, disconnect(peer[s]))
    /\ dpc' = [dpc EXCEPT ![s] = "done"]
    /\ UNCHANGED << storeVars, histVars, rpc, wire, callVars, engineVars, lifeVars,
                   handled, fileVars, announceVars, lockVars >>

\* connect(): _perform_handshake returned True; the receive thread starts
HandshakeOk(s) ==
    /\ dpc[s] = "handshake"
    /\ peer[s].socket = "open"
    /\ SetPeer(s, [peer[s] EXCEPT !.handshake_completed = TRUE, !.running = TRUE])
    /\ rpc' = [rpc EXCEPT ![s] = "run"]
    /\ dpc' = [dpc EXCEPT ![s] = "interested"]
    /\ UNCHANGED << storeVars, histVars, wire, callVars, engineVars, lifeVars,
                   handled, fileVars, announceVars, lockVars >>

\* connect(): _perform_handshake returned False (short read, other protocol
\* string or info_hash, socket error)
HandshakeFail(s) ==
    /\ dpc[s] = "handshake"
    /\ Unreliable(s) \/ peer[s].socket # "open"
    /\ SetPeer(s, disconnect(peer[s]))
    /\ dpc' = [dpc EXCEPT ![s] = "done"]
    /\ UNCHANGED << storeVars, histVars, rpc, wire, callVars, engineVars, lifeVars,
                   handled, fileVars, announceVars, lockVars >>

\* _connect_peer: send_interested after connect() returned True; sendFails:
\* socket.send raised inside _send_message, which disconnects
SendInterested(s, sendFails) ==
    /\ dpc[s] = "interested"
    /\ sendFails => Unreliable(s) /\ peer[s].connected /\ ~peer[s].am_interested
    /\ SetPeer(s, IF peer[s].connected /\ ~peer[s].am_interested
                  THEN [(IF sendFails THEN disconnect(peer[s]) ELSE peer[s])
                           EXCEPT !.am_interested = TRUE]
                  ELSE peer[s])
    /\ dpc' = [dpc EXCEPT ![s] = "done"]
    /\ UNCHANGED << storeVars, histVars, rpc, wire, callVars, engineVars, lifeVars,
                   handled, fileVars, announceVars, lockVars >>

\* _receive_loop is about to handle the next message
Receiving(s) ==
    /\ rpc[s] = "run"
    /\ peer[s].running /\ peer[s].connected

RecvFlag(s, c) ==
    /\ Receiving(s)
    /\ SetPeer(s, c)
    /\ UNCHANGED << storeVars, histVars, dpc, rpc, wire, callVars, engineVars, lifeVars,
                   handled, fileVars, announceVars, lockVars >>

\* _handle_message, MSG_CHOKE
RecvChoke(s) ==
    /\ Unreliable(s)
    /\ RecvFlag(s, [peer[s] EXCEPT !.peer_choking = TRUE])

\* _handle_message, MSG_UNCHOKE
RecvUnchoke(s) ==
    /\ Unreliable(s) \/ (peer[s].peer_choking /\ peer[s].peer_pieces # << >>)
    /\ RecvFlag(s, [peer[s] EXCEPT !.peer_choking = FALSE])

\* _handle_message, MSG_HAVE -> _handle_have (on_have_received does nothing)
RecvHave(s, piece_index) ==
    /\ Unreliable(s)
    /\ RecvFlag(s, handle_have(peer[s], piece_index))

\* _handle_message, MSG_BITFIELD -> _handle_bitfield
RecvBitfield(s, bits) ==
    /\ Unreliable(s) \/ (bits = AllOnes /\ peer[s].peer_pieces = << >>)
    /\ RecvFlag(s, [peer[s] EXCEPT !.peer_pieces = bits])

\* _handle_message, MSG_PIECE -> _handle_piece, with on_piece_received bound
\* to _on_piece_received, which calls add_piece_data
HandlePiece(s, piece_index, begin, block_data) ==
    \E r \in {handle_piece(peer[s], piece_index, begin, block_data)} :
        /\ Receiving(s)
        /\ SetPeer(s, r.c)
        /\ IF r.call # << >>
           THEN StoreAdd(r.call[1], r.call[2], r.call[3])
           ELSE UNCHANGED storeVars
        /\ UNCHANGED histVars

\* _handle_message, MSG_PIECE -> _handle_piece, on_piece_received bound to
\* a callback that only records its arguments
HandlePieceRecorded(s, piece_index, begin, block_data) ==
    LET r == handle_piece(peer[s], piece_index, begin, block_data)
    IN  /\ Receiving(s)
        /\ SetPeer(s, r.c)
        /\ cb' = r.call
        /\ UNCHANGED << storeVars, grants, goodIngested, tainted, last, lastWrite,
                        dpc, rpc, wire, callVars, engineVars, lifeVars,
                   handled, fileVars, announceVars, lockVars >>

\* the remote peer of "good" answers a request it has received
RecvAnswer(s, req) ==
    /\ ~Unreliable(s)
    /\ req \in wire
    /\ HandlePiece(s, req[1], req[2], [len |-> req[3], val |-> OrigVal(req[1], req[2])])
    /\ wire' = wire \ {req}
    /\ UNCHANGED << dpc, rpc, callVars, engineVars, lifeVars,
                   handled, fileVars, announceVars, lockVars >>

\* an unconstrained remote peer sends a piece message
RecvPiece(s, piece_index, begin, block_data) ==
    /\ Unreliable(s)
    /\ HandlePiece(s, piece_index, begin, block_data)
    /\ UNCHANGED << dpc, rpc, wire, callVars, engineVars, lifeVars,
                   handled, fileVars, announceVars, lockVars >>

\* _receive_loop leaves its loop (recv error, EOF, or the loop condition is
\* false) and calls disconnect()
RecvExit(s) ==
    /\ rpc[s] = "run"
    /\ Unreliable(s) \/ ~(peer[s].running /\ peer[s].connected)
    /\ SetPeer(s, disconnect(peer[s]))
    /\ rpc' = [rpc EXCEPT ![s] = "exited"]
    /\ UNCHANGED << storeVars, histVars, dpc, wire, callVars, engineVars, lifeVars,
                   handled, fileVars, announceVars, lockVars >>

\* ----------------------------------------------------- request_piece steps
\* request_piece, the guards before the send; a refusal returns False
RpCheck ==
    /\ epc = "rp_check"
    /\ IF request_piece_refuses(peer[ecall.s], ecall.req[1])
       THEN /\ epc' = ecall.to
            /\ ecall' = NoCall
       ELSE /\ epc' = "rp_send"
            /\ ecall' = ecall
    /\ UNCHANGED << storeVars, histVars, sessionVars, engineVars, lifeVars,
                   handled, fileVars, announceVars, lockVars >>

\* request_piece -> _send_message(MSG_REQUEST, payload); sendFails:
\* socket.send raised, _send_message disconnects
RpSend(sendFails) ==
    /\ epc = "rp_send"
    /\ sendFails => Unreliable(ecall.s) /\ peer[ecall.s].connected
    /\ LET s == ecall.s
       IN  /\ SetPeer(s, IF sendFails THEN disconnect(peer[s]) ELSE peer[s])
           /\ wire' = IF peer[s].connected /\ ~sendFails /\ ~Unreliable(s)
                      THEN wire \cup {ecall.req}
                      ELSE wire
           /\ lastWrite' = IF peer[s].connected /\ ~sendFails
                           THEN (IF can_request(peer[s]) THEN "can" ELSE "cannot")
                           ELSE lastWrite
    /\ epc' = "rp_track"
    /\ UNCHANGED << storeVars, grants, goodIngested, tainted, last, cb,
                    dpc, rpc, ecall, engineVars, lifeVars,
                   handled, fileVars, announceVars, lockVars >>

\* request_piece: the request is added to pending_requests, return True
RpTrack ==
    /\ epc = "rp_track"
    /\ SetPeer(ecall.s, [peer[ecall.s] EXCEPT !.pending_requests = @ \cup {ecall.req}])
    /\ epc' = ecall.to
    /\ ecall' = NoCall
    /\ UNCHANGED << storeVars, histVars, dpc, rpc, wire, engineVars, lifeVars,
                   handled, fileVars, announceVars, lockVars >>

\* ------------------------------------------- the session interface, called
\* connect() is called on a new session
ApiConnect(s) ==
    /\ dpc[s] = "new"
    /\ dpc' = [dpc EXCEPT ![s] = "dial"]
    /\ UNCHANGED << storeVars, histVars, peer, rpc, wire, callVars, engineVars, lifeVars,
                   handled, fileVars, announceVars, lockVars >>

\* request_piece(piece_index, begin, length) is called
ApiRequestPiece(s, req) ==
    /\ epc = "idle"
    /\ epc' = "rp_check"
    /\ ecall' = [s |-> s, req |-> req, to |-> "idle"]
    /\ UNCHANGED << storeVars, histVars, sessionVars, engineVars, lifeVars,
                   handled, fileVars, announceVars, lockVars >>

\* the blocks of the torrent, a block of a piece past the last one and a
\* misaligned block
RequestInputs ==
    {<< b[1], NewPiece(b[1]).blocks[b[2]].offset,
        NewPiece(b[1]).blocks[b[2]].length >> : b \in BlockIds}
    \cup {<< get_total_pieces, 0, BLOCK_SIZE >>, << 0, 8, BLOCK_SIZE >>,
          << 0, 0, 8 >>}

\* have messages: the first piece, and an index past a one-byte bitfield
HaveInputs == {0, 8}

\* piece messages: the block of any of these requests
PieceMsgInputs == RequestInputs

NextSession ==
    \E s \in {"arb"} :
        \/ ApiConnect(s)
        \/ DialOk(s)
        \/ DialFail(s)
        \/ HandshakeOk(s)
        \/ HandshakeFail(s)
        \/ \E f \in BOOLEAN : SendInterested(s, f)
        \/ RecvChoke(s)
        \/ RecvUnchoke(s)
        \/ \E i \in HaveInputs : RecvHave(s, i)
        \/ \E bits \in {AllOnes, AllZeros} : RecvBitfield(s, bits)
        \/ \E m \in PieceMsgInputs :
               HandlePieceRecorded(s, m[1], m[2], [len |-> m[3], val |-> 1])
        \/ RecvExit(s)
        \/ \E req \in RequestInputs : ApiRequestPiece(s, req)
        \/ RpCheck
        \/ \E f \in BOOLEAN : RpSend(f)
        \/ RpTrack

SpecSession == Init /\ [][NextSession]_vars

\* ------------------------------------------------------------- Engine steps
\* _request_pieces_from_peers: the pieces the session's availability holds
available_pieces(c) == {i \in 0 .. (Len(c.peer_pieces) - 1) : has_piece(c, i)}

\* _download_loop: the loop condition; the first pass announces to the
\* tracker, which returns the endpoints trackerList, and _add_peer creates a
\* session and starts a dial thread for each.  Later announces return no
\* endpoint that is not in the session map already.
EngLoop(trackerList) ==
    /\ epc = "loop"
    /\ IF running /\ ~is_complete(pieces, completed_pieces)
       THEN /\ epc' = "peers"
            /\ IF ~announced
               THEN /\ peers' = trackerList
                    /\ dpc' = [s \in Sessions |->
                                  IF \E k \in DOMAIN trackerList : trackerList[k] = s
                                  THEN "dial" ELSE dpc[s]]
               ELSE UNCHANGED << peers, dpc >>
            /\ announced' = TRUE
            /\ etodo' = peers'
       ELSE /\ epc' = "exit"
            /\ UNCHANGED << peers, dpc, announced, etodo >>
    /\ UNCHANGED << storeVars, histVars, peer, rpc, wire, running, ecall,
                   lifeVars, handled, fileVars, announceVars, lockVars >>

\* _request_pieces_from_peers: one pass of the loop body, up to the call of
\* request_piece
EngTryPeer ==
    /\ epc = "peers"
    /\ etodo # << >>
    /\ LET s == Head(etodo)
       IN  IF can_request(peer[s])
           THEN \E order \in Perms(available_pieces(peer[s]) \cap Pieces) :
                \E r \in {get_next_request(pieces, completed_pieces, order)} :
                    /\ pieces' = r.pieces
                    /\ UNCHANGED << completed_pieces, written, cbCalls >>
                    /\ IF r.ret # << >>
                       THEN /\ epc' = "rp_check"
                            /\ ecall' = [s |-> s, req |-> r.ret, to |-> "peers"]
                       ELSE UNCHANGED << epc, ecall >>
           ELSE UNCHANGED << storeVars, epc, ecall >>
    /\ etodo' = Tail(etodo)
    /\ UNCHANGED << histVars, sessionVars, peers, running, announced,
                   lifeVars, handled, fileVars, announceVars, lockVars >>

\* _cleanup_disconnected_peers, then the loop starts over
EngCleanup ==
    /\ epc = "peers"
    /\ etodo = << >>
    /\ peers' = SelectSeq(peers, LAMBDA s : peer[s].connected)
    /\ epc' = "loop"
    /\ UNCHANGED << storeVars, histVars, sessionVars, running, announced, etodo,
                   ecall, lifeVars, handled, fileVars, announceVars, lockVars >>

\* piece messages of an unconstrained peer to the engine: the blocks of the
\* torrent, with the original or with other bytes
WellFormedBlocks ==
    {<< b[1], NewPiece(b[1]).blocks[b[2]].offset,
        NewPiece(b[1]).blocks[b[2]].length >> : b \in BlockIds}

\* what a session with an unconstrained remote peer can do
SessionStep(s) ==
    \/ DialOk(s)
    \/ DialFail(s)
    \/ HandshakeOk(s)
    \/ HandshakeFail(s)
    \/ \E f \in BOOLEAN : SendInterested(s, f)
    \/ RecvChoke(s)
    \/ RecvUnchoke(s)
    \/ RecvBitfield(s, AllOnes)
    \/ \E m \in WellFormedBlocks, v \in DataVals :
           RecvPiece(s, m[1], m[2], [len |-> m[3], val |-> v])
    \/ RecvExit(s)

EngineStep(trackerList) ==
    \/ EngLoop(trackerList)
    \/ EngTryPeer
    \/ EngCleanup
    \/ RpCheck
    \/ \E f \in BOOLEAN : RpSend(f)
    \/ RpTrack

\* the engine with one session, whose remote peer is unconstrained
Next ==
    \/ SessionStep("arb")
    \/ EngineStep(<< "arb" >>)

Spec == InitEngine /\ [][Next]_vars

\* a remote peer that advertises nothing: its bitfield frames are all zeros,
\* as long as it has not sent another one
RecvZeroBitfield(s) ==
    /\ peer[s].peer_pieces \in {<< >>, AllZeros}
    /\ RecvBitfield(s, AllZeros)

\* the engine with one session whose remote peer sends a bitfield of all
\* zeros or of all ones
NextAvail ==
    \/ SessionStep("arb")
    \/ RecvZeroBitfield("arb")
    \/ EngineStep(<< "arb" >>)

SpecAvail == InitEngine /\ [][NextAvail]_vars

\* ------------------------------------------------- the engine with two peers
\* the tracker returns two endpoints
TrackerList == << "arb", "good" >>

\* the session "good": its remote peer accepts the connection, completes the
\* handshake, sends a full bitfield and then unchoke, never chokes, never
\* closes, and answers every request it receives with the original bytes
GoodStep ==
    \/ DialOk("good")
    \/ HandshakeOk("good")
    \/ SendInterested("good", FALSE)
    \/ RecvBitfield("good", AllOnes)
    \/ RecvUnchoke("good")
    \/ \E req \in WellFormedBlocks : RecvAnswer("good", req)

\* the session "arb": its remote peer accepts the connection, completes the
\* handshake, sends a full bitfield and unchoke, sends no block, and may
\* close the connection at any time
FlakyStep ==
    \/ DialOk("arb")
    \/ HandshakeOk("arb")
    \/ SendInterested("arb", FALSE)
    \/ RecvBitfield("arb", AllOnes)
    \/ RecvUnchoke("arb")
    \/ RecvExit("arb")

NextFair ==
    \/ GoodStep
    \/ FlakyStep
    \/ EngineStep(TrackerList)

\* the engine thread and the threads of "good" keep running, and the remote
\* peer of "good" keeps answering
SpecFair ==
    /\ InitEngine
    /\ [][NextFair]_vars
    /\ WF_vars(EngineStep(TrackerList))
    /\ WF_vars(GoodStep)

\* ------------------------------------------------------------ the handshake
\* seq[a:b] of Python for 0 <= a <= b: the end is clipped to the length
Slice(seq, a, b) == SubSeq(seq, a + 1, Min(b, Len(seq)))

Repeat(v, n) == [i \in 1 .. n |-> v]

\* _perform_handshake: pstr = b"BitTorrent protocol", as byte values
pstr == << 66, 105, 116, 84, 111, 114, 114, 101, 110, 116, 32,
           112, 114, 111, 116, 111, 99, 111, 108 >>

\* the info_hash the session was constructed with
info_hash == Repeat(7, 20)

\* bytes([pstrlen]) + pstr + reserved + info_hash + peer_id
handshake_message(p, h, id) == << Len(p) >> \o p \o Repeat(0, 8) \o h \o id

\* _receive_exact: the first `length` bytes the remote sends before it closes;
\* None (here the empty sequence, which `if not response` treats alike) when
\* the stream ends before
receive_exact(stream, length) ==
    IF Len(stream) < length THEN << >> ELSE SubSeq(stream, 1, length)

\* (variant) the info_hash of the response is not compared
perform_handshake_any_hash(stream) ==
    LET response == receive_exact(stream, 68)
    IN  IF response = << >> THEN FALSE
        ELSE LET resp_pstrlen == response[1]
                 resp_pstr == Slice(response, 1, 1 + resp_pstrlen)
             IN  ~(resp_pstr # pstr)

\* _perform_handshake after the send: read 68 bytes, slice them by the
\* received pstrlen, compare protocol string and info_hash; resp_peer_id is
\* parsed and not used
perform_handshake(stream) ==
    LET response == receive_exact(stream, 68)
    IN  IF response = << >> THEN FALSE
        ELSE LET resp_pstrlen == response[1]
                 resp_pstr == Slice(response, 1, 1 + resp_pstrlen)
                 resp_info_hash == Slice(response, 1 + resp_pstrlen + 8,
                                         1 + resp_pstrlen + 8 + 20)
             IN  ~(resp_pstr # pstr \/ resp_info_hash # info_hash)

\* what a remote peer may send after the connection is made
RemoteStreams ==
    {handshake_message(pstr, info_hash, Repeat(1, 20)),
     handshake_message(pstr, info_hash, Repeat(2, 20)),
     \* other protocol string of the same length
     handshake_message([pstr EXCEPT ![19] = 76], info_hash, Repeat(1, 20)),
     \* shorter protocol string: 67 bytes, and 68 bytes with one more
     handshake_message(SubSeq(pstr, 1, 18), info_hash, Repeat(1, 20)),
     handshake_message(SubSeq(pstr, 1, 18), info_hash, Repeat(1, 20)) \o << 0 >>,
     \* info_hash that differs in one bit
     handshake_message(pstr, [info_hash EXCEPT ![20] = 6], Repeat(1, 20)),
     handshake_message(pstr, [info_hash EXCEPT ![20] = 6], Repeat(2, 20)),
     \* the remote closes after 48 bytes, or at once
     SubSeq(handshake_message(pstr, info_hash, Repeat(1, 20)), 1, 48),
     << >>}

\* ------------------------------------------------- the lifetime of a session
\* disconnect() up to the test `if self.socket`, run by thread t
EnterDisconnect(s, t, c) ==
    /\ SetPeer(s, [c EXCEPT !.running = FALSE, !.connected = FALSE])
    /\ IF c.socket # None
       THEN /\ dcall' = [dcall EXCEPT ![s][t] = "close"]
            /\ executed' = executed
       ELSE /\ dcall' = dcall
            /\ executed' = executed \cup {s}
    /\ closes' = closes

\* disconnect(): self.socket.close() inside try/except; when another thread
\* has set self.socket to None meanwhile the call raises and nothing is closed
DisconnectClose(s, t) ==
    /\ dcall[s][t] = "close"
    /\ dcall' = [dcall EXCEPT ![s][t] = "clear"]
    /\ IF peer[s].socket # None
       THEN /\ closes' = [closes EXCEPT ![s] = @ + 1]
            /\ SetPeer(s, [peer[s] EXCEPT !.socket = "closed"])
       ELSE UNCHANGED << closes, peer >>
    /\ UNCHANGED << storeVars, histVars, dpc, rpc, wire, callVars, engineVars,
                   executed, spc, handled, fileVars, announceVars, lockVars >>

\* disconnect(): self.socket = None, and the call returns
DisconnectClear(s, t) ==
    /\ dcall[s][t] = "clear"
    /\ dcall' = [dcall EXCEPT ![s][t] = "out"]
    /\ SetPeer(s, [peer[s] EXCEPT !.socket = None])
    /\ executed' = executed \cup {s}
    /\ UNCHANGED << storeVars, histVars, dpc, rpc, wire, callVars, engineVars,
                   closes, spc, handled, fileVars, announceVars, lockVars >>

\* connect(): the socket is created, socket.connect raises, the except branch
\* calls disconnect()
ConnectRaises(s) ==
    /\ dpc[s] = "dial"
    /\ dpc' = [dpc EXCEPT ![s] = "done"]
    /\ EnterDisconnect(s, "dial", [peer[s] EXCEPT !.socket = "open"])
    /\ UNCHANGED << storeVars, histVars, rpc, wire, callVars, engineVars,
                   spc, handled, fileVars, announceVars, lockVars >>

\* connect(): _perform_handshake on what the remote sends; sendFails: the
\* sendall of the own handshake raises.  True: handshake_completed, running,
\* the receive thread starts.  False: disconnect()
Handshake(s, stream, sendFails) ==
    /\ dpc[s] = "handshake"
    /\ IF peer[s].socket = "open" /\ ~sendFails /\ perform_handshake(stream)
       THEN /\ SetPeer(s, [peer[s] EXCEPT !.handshake_completed = TRUE,
                                          !.running = TRUE])
            /\ rpc' = [rpc EXCEPT ![s] = "run"]
            /\ dpc' = [dpc EXCEPT ![s] = "interested"]
            /\ UNCHANGED << dcall, closes, executed >>
       ELSE /\ EnterDisconnect(s, "dial", peer[s])
            /\ dpc' = [dpc EXCEPT ![s] = "done"]
            /\ rpc' = rpc
    /\ UNCHANGED << storeVars, histVars, wire, callVars, engineVars,
                   spc, handled, fileVars, announceVars, lockVars >>

\* _connect_peer: send_interested; when socket.send raises (sendFails, or no
\* open socket is left) _send_message calls disconnect()
InterestedSend(s, sendFails) ==
    /\ dpc[s] = "interested"
    /\ dpc' = [dpc EXCEPT ![s] = "done"]
    /\ IF peer[s].connected /\ ~peer[s].am_interested
       THEN IF sendFails \/ peer[s].socket # "open"
            THEN EnterDisconnect(s, "dial", [peer[s] EXCEPT !.am_interested = TRUE])
            ELSE /\ SetPeer(s, [peer[s] EXCEPT !.am_interested = TRUE])
                 /\ UNCHANGED << dcall, closes, executed >>
       ELSE UNCHANGED << peer, dcall, closes, executed >>
    /\ UNCHANGED << storeVars, histVars, rpc, wire, callVars, engineVars,
                   spc, handled, fileVars, announceVars, lockVars >>

\* _receive_loop ends (EOF, socket error, or running/connected found False)
\* and calls disconnect()
LoopExit(s) ==
    /\ rpc[s] = "run"
    /\ rpc' = [rpc EXCEPT ![s] = "exited"]
    /\ EnterDisconnect(s, "recv", peer[s])
    /\ UNCHANGED << storeVars, histVars, dpc, wire, callVars, engineVars,
                   spc, handled, fileVars, announceVars, lockVars >>

\* BitTorrentClient.stop(): running = False, peer.disconnect() for the
\* sessions in self.peers (a session is put there when its dial thread starts)
Stop(s) ==
    /\ spc = "idle"
    /\ dpc[s] # "new"
    /\ spc' = "disconnect"
    /\ running' = FALSE
    /\ EnterDisconnect(s, "stop", peer[s])
    /\ UNCHANGED << storeVars, histVars, dpc, rpc, wire, callVars,
                   peers, announced, etodo, handled, fileVars, announceVars, lockVars >>

\* stop(): the disconnect() calls are over; file_manager.cleanup()
StopCleanup ==
    /\ spc = "disconnect"
    /\ \A s \in Sessions : dcall[s]["stop"] = "out"
    /\ spc' = "announce"
    /\ UNCHANGED << storeVars, histVars, sessionVars, callVars, engineVars,
                    dcall, closes, executed, handled, fileVars, announceVars, lockVars >>

\* stop(): tracker_client.announce('stopped') inside try/except, and stop()
\* returns; announceFails: the announce raises
StopAnnounce(announceFails) ==
    /\ spc = "announce"
    /\ spc' = "returned"
    /\ UNCHANGED << storeVars, histVars, sessionVars, callVars, engineVars,
                    dcall, closes, executed, handled, fileVars, announceVars, lockVars >>

NextDial ==
    \E s \in {"arb"} :
        \/ ApiConnect(s)
        \/ DialOk(s)
        \/ ConnectRaises(s)
        \/ \E stream \in RemoteStreams, f \in BOOLEAN : Handshake(s, stream, f)
        \/ \E f \in BOOLEAN : InterestedSend(s, f)
        \/ RecvChoke(s)
        \/ RecvUnchoke(s)
        \/ LoopExit(s)
        \/ Stop(s)
        \/ StopCleanup
        \/ \E f \in BOOLEAN : StopAnnounce(f)
        \/ \E t \in Threads : DisconnectClose(s, t)
        \/ \E t \in Threads : DisconnectClear(s, t)

SpecDial == Init /\ [][NextDial]_vars

\* ------------------------------------------------------ inbound messages
\* utils.bytes_to_int: big endian
RECURSIVE bytes_to_int(_)
bytes_to_int(data) ==
    IF data = << >> THEN 0
    ELSE 256 * bytes_to_int(SubSeq(data, 1, Len(data) - 1)) + data[Len(data)]

\* utils.int_to_bytes: big endian
int_to_bytes(value, length) ==
    [i \in 1 .. length |-> (value \div 256 ^ (length - i)) % 256]

\* BitArray(bytes=...): eight bits a byte, the most significant first
BitArray(bytes) ==
    [i \in 1 .. 8 * Len(bytes) |->
        (bytes[((i - 1) \div 8) + 1] \div 2 ^ (7 - ((i - 1) % 8))) % 2 = 1]

\* _handle_bitfield
handle_bitfield(c, bitfield_data) ==
    [c EXCEPT !.peer_pieces = BitArray(bitfield_data)]

\* a frame as _receive_loop reads it: len the 4-byte length prefix, tag the
\* first byte of the message, payload the bytes after it (for a piece message
\* the 8 bytes before the block), block the block of a piece message
Frame(len, tag, payload) ==
    [len |-> len, tag |-> tag, payload |-> payload,
     block |-> [len |-> 0, val |-> 0]]

\* (variant) a tag that is not known ends the session
handle_message_strict(c, m) ==
    IF m.len = 0 THEN [c |-> c, call |-> << >>]
    ELSE IF m.tag = 0 THEN [c |-> [c EXCEPT !.peer_choking = TRUE], call |-> << >>]
    ELSE IF m.tag = 1 THEN [c |-> [c EXCEPT !.peer_choking = FALSE], call |-> << >>]
    ELSE IF m.tag = 2 THEN [c |-> [c EXCEPT !.peer_interested = TRUE], call |-> << >>]
    ELSE IF m.tag = 3 THEN [c |-> [c EXCEPT !.peer_interested = FALSE], call |-> << >>]
    ELSE IF m.tag = 4
    THEN [c |-> IF Len(m.payload) >= 4
                THEN handle_have(c, bytes_to_int(Slice(m.payload, 0, 4)))
                ELSE c,
          call |-> << >>]
    ELSE IF m.tag = 5 THEN [c |-> handle_bitfield(c, m.payload), call |-> << >>]
    ELSE IF m.tag = 6 THEN [c |-> c, call |-> << >>]
    ELSE IF m.tag = 7
    THEN IF Len(m.payload) >= 8
         THEN handle_piece(c, bytes_to_int(Slice(m.payload, 0, 4)),
                           bytes_to_int(Slice(m.payload, 4, 8)), m.block)
         ELSE [c |-> c, call |-> << >>]
    ELSE IF m.tag = 8 THEN [c |-> c, call |-> << >>]
    ELSE [c |-> disconnect(c), call |-> << >>]

\* _receive_loop for one frame: a keep-alive (length 0) is skipped, any other
\* message goes to _handle_message, which dispatches on MSG_CHOKE = 0 ..
\* MSG_CANCEL = 8 and has no branch for another tag.  [c, call]: the session
\* afterwards and the arguments on_piece_received was invoked with
handle_message(c, m) ==
    IF m.len = 0 THEN [c |-> c, call |-> << >>]
    ELSE IF m.tag = 0 THEN [c |-> [c EXCEPT !.peer_choking = TRUE], call |-> << >>]
    ELSE IF m.tag = 1 THEN [c |-> [c EXCEPT !.peer_choking = FALSE], call |-> << >>]
    ELSE IF m.tag = 2 THEN [c |-> [c EXCEPT !.peer_interested = TRUE], call |-> << >>]
    ELSE IF m.tag = 3 THEN [c |-> [c EXCEPT !.peer_interested = FALSE], call |-> << >>]
    ELSE IF m.tag = 4
    THEN [c |-> IF Len(m.payload) >= 4
                THEN handle_have(c, bytes_to_int(Slice(m.payload, 0, 4)))
                ELSE c,
          call |-> << >>]
    ELSE IF m.tag = 5 THEN [c |-> handle_bitfield(c, m.payload), call |-> << >>]
    ELSE IF m.tag = 6 THEN [c |-> c, call |-> << >>]
    ELSE IF m.tag = 7
    THEN IF Len(m.payload) >= 8
         THEN handle_piece(c, bytes_to_int(Slice(m.payload, 0, 4)),
                           bytes_to_int(Slice(m.payload, 4, 8)), m.block)
         ELSE [c |-> c, call |-> << >>]
    ELSE IF m.tag = 8 THEN [c |-> c, call |-> << >>]
    ELSE [c |-> c, call |-> << >>]

\* the frames a remote peer sends
InboundMessages ==
    {Frame(0, -1, << >>),
     Frame(1, 0, << >>), Frame(1, 1, << >>),
     Frame(1, 2, << >>), Frame(1, 3, << >>),
     Frame(5, 4, int_to_bytes(0, 4)), Frame(5, 4, int_to_bytes(1, 4)),
     Frame(5, 4, int_to_bytes(256, 4)), Frame(3, 4, << 0, 0 >>),
     Frame(2, 5, << 255 >>), Frame(2, 5, << 0 >>),
     Frame(13, 6, int_to_bytes(0, 4) \o int_to_bytes(0, 4)
                      \o int_to_bytes(BLOCK_SIZE, 4)),
     [Frame(9 + BLOCK_SIZE, 7, int_to_bytes(0, 4) \o int_to_bytes(0, 4))
         EXCEPT !.block = [len |-> BLOCK_SIZE, val |-> 1]],
     Frame(13, 8, int_to_bytes(0, 4) \o int_to_bytes(0, 4)
                      \o int_to_bytes(BLOCK_SIZE, 4)),
     Frame(1, 9, << >>), Frame(3, 20, << 1, 2 >>), Frame(1, 255, << >>)}

\* _receive_loop reads one frame and handles it; on_piece_received is bound
\* to a callback that records its arguments
RecvMessage(s, m) ==
    \E r \in {handle_message(peer[s], m)} :
        /\ Receiving(s)
        /\ SetPeer(s, r.c)
        /\ cb' = IF r.call # << >> THEN r.call ELSE cb
        /\ handled' = m
        /\ UNCHANGED << storeVars, grants, goodIngested, tainted, last, lastWrite,
                        dpc, rpc, wire, callVars, engineVars, lifeVars,
                        fileVars, announceVars, lockVars >>

\* the requests made on the session while it receives
InboundRequests == {<< 0, 0, BLOCK_SIZE >>, << 1, 0, TotalLength - PieceLength >>}

NextInbound ==
    \E s \in {"arb"} :
        \/ ApiConnect(s)
        \/ DialOk(s)
        \/ HandshakeOk(s)
        \/ SendInterested(s, FALSE)
        \/ \E m \in InboundMessages : RecvMessage(s, m)
        \/ RecvExit(s)
        \/ \E req \in InboundRequests : ApiRequestPiece(s, req)
        \/ RpCheck
        \/ RpSend(FALSE)
        \/ RpTrack

SpecInbound == Init /\ [][NextInbound]_vars

\* ------------------------------------------------------------ File Writer
Max(a, b) == IF a > b THEN a ELSE b

RECURSIVE offset_of(_, _)
\* _parse_multi_file: offset += file_length before file k
offset_of(lengths, k) ==
    IF k = 1 THEN 0 ELSE offset_of(lengths, k - 1) + lengths[k - 1]

\* TorrentFile._parse_multi_file: the files in the order of the torrent, each
\* at the sum of the lengths before it
parse_multi_file(lengths) ==
    [k \in 1 .. Len(lengths) |->
        [length |-> lengths[k], offset |-> offset_of(lengths, k)]]

\* TorrentFile.get_files_for_piece: the indices of the files the test
\* `piece_start < file_end and piece_end > file_start` lets through
get_files_for_piece(fs, piece_index) ==
    LET piece_start == piece_index * PieceLength
        piece_end == piece_start + get_piece_length(piece_index)
    IN  SelectSeq([k \in 1 .. Len(fs) |-> k],
                  LAMBDA k : /\ piece_start < fs[k].offset + fs[k].length
                             /\ piece_end > fs[k].offset)

\* (variant) the position in the file is taken relative to the piece
write_piece_piece_relative(fs, piece_index, data_len) ==
    LET piece_offset == piece_index * PieceLength
        overlap_start(k) == Max(piece_offset, fs[k].offset)
        overlap_end(k) == Min(piece_offset + data_len, fs[k].offset + fs[k].length)
        overlapping_files ==
            SelectSeq(get_files_for_piece(fs, piece_index),
                      LAMBDA k : overlap_start(k) < overlap_end(k))
    IN  [j \in 1 .. Len(overlapping_files) |->
            LET k == overlapping_files[j]
                piece_read_pos == overlap_start(k) - piece_offset
                overlap_length == overlap_end(k) - overlap_start(k)
            IN  [file |-> k,
                 position |-> overlap_start(k) - piece_offset,
                 from |-> piece_read_pos,
                 length |-> Min(piece_read_pos + overlap_length, data_len)
                            - piece_read_pos]]

\* FileManager.write_piece for piece_data of data_len bytes: the
\* _write_to_file calls it makes, in order.  A call is (file, position, from,
\* length): seek(position) in the file and write
\* piece_data[from : from + length]
write_piece(fs, piece_index, data_len) ==
    LET piece_offset == piece_index * PieceLength
        overlap_start(k) == Max(piece_offset, fs[k].offset)
        overlap_end(k) == Min(piece_offset + data_len, fs[k].offset + fs[k].length)
        overlapping_files ==
            SelectSeq(get_files_for_piece(fs, piece_index),
                      LAMBDA k : overlap_start(k) < overlap_end(k))
    IN  [j \in 1 .. Len(overlapping_files) |->
            LET k == overlapping_files[j]
                piece_read_pos == overlap_start(k) - piece_offset
                overlap_length == overlap_end(k) - overlap_start(k)
            IN  [file |-> k,
                 position |-> overlap_start(k) - fs[k].offset,
                 from |-> piece_read_pos,
                 length |-> Min(piece_read_pos + overlap_length, data_len)
                            - piece_read_pos]]

\* where one file of a torrent may end and the next begin
CutPoints ==
    {PieceLength \div 4, PieceLength \div 2, PieceLength - 1, PieceLength,
     (PieceLength + TotalLength) \div 2}

\* the elements of a set of numbers in increasing order
Sorted(S) ==
    [i \in 1 .. Cardinality(S) |->
        CHOOSE x \in S : Cardinality({y \in S : y < x}) = i - 1]

\* the file lengths of the torrent cut at the points C
LengthsOf(C) ==
    LET ends == Sorted(C \cup {TotalLength})
    IN  [k \in 1 .. Len(ends) |-> ends[k] - (IF k = 1 THEN 0 ELSE ends[k - 1])]

\* lengths with an empty file put in after the first j files
WithEmptyFile(lengths, j) ==
    SubSeq(lengths, 1, j) \o << 0 >> \o SubSeq(lengths, j + 1, Len(lengths))

\* the file lists of the torrents considered: a single file, and several
\* files, without and with an empty file among them
Layouts ==
    {parse_single_file}
    \cup {parse_multi_file(LengthsOf(C)) : C \in SUBSET CutPoints \ {{}}}
    \cup UNION {{parse_multi_file(WithEmptyFile(LengthsOf(C), j)) :
                    j \in 0 .. Cardinality(C) + 1} : C \in SUBSET CutPoints}

InitWrite ==
    /\ InitComponents
    /\ epc = "idle"
    /\ files \in Layouts
    /\ disk = EmptyDisk(files)

\* (variant) the data is written without the seek to `position`
write_to_file_no_seek(d, fs, k, position, src, length) ==
    LET f == IF d[k].exists THEN d[k]
             ELSE [exists |-> TRUE, size |-> Max(fs[k].length, 0), segs |-> << >>]
        w == [position |-> 0, src |-> src, length |-> length]
    IN  [d EXCEPT ![k] =
            [exists |-> TRUE,
             size |-> Max(f.size, length),
             segs |-> SelectSeq(f.segs, LAMBDA x : x # w) \o << w >>]]

\* FileManager._write_to_file on the directory d: a file that does not exist
\* is created with seek(length - 1), write(b'\0'), which for a declared length
\* of 0 raises after the (empty) file was created, and the exception ends the
\* call; then seek(position), write(data).  The data is kept as the segment
\* (position, src, length): `length` bytes of the torrent from byte src on
\* (a segment written again moves to the end)
write_to_file(d, fs, k, position, src, length) ==
    IF ~d[k].exists /\ fs[k].length - 1 < 0
    THEN [d EXCEPT ![k] = [exists |-> TRUE, size |-> 0, segs |-> << >>]]
    ELSE LET f == IF d[k].exists THEN d[k]
                  ELSE [exists |-> TRUE, size |-> fs[k].length, segs |-> << >>]
             w == [position |-> position, src |-> src, length |-> length]
         IN  [d EXCEPT ![k] =
                 [exists |-> TRUE,
                  size |-> Max(f.size, position + length),
                  segs |-> SelectSeq(f.segs, LAMBDA x : x # w) \o << w >>]]

RECURSIVE write_all(_, _, _, _)
\* write_piece: the _write_to_file calls ws made one after the other;
\* piece_offset is where the bytes of piece_data are in the torrent
write_all(d, fs, ws, piece_offset) ==
    IF ws = << >> THEN d
    ELSE write_all(write_to_file(d, fs, ws[1].file, ws[1].position,
                                 piece_offset + ws[1].from, ws[1].length),
                   fs, Tail(ws), piece_offset)

\* write_piece(piece_index, piece_data) with piece_data the verified bytes of
\* the piece
WritePiece(piece_index) ==
    /\ fwrites' = [fwrites EXCEPT ![piece_index] =
                      [len |-> get_piece_length(piece_index),
                       writes |-> write_piece(files, piece_index,
                                              get_piece_length(piece_index))]]
    /\ disk' = write_all(disk, files, fwrites'[piece_index].writes,
                         piece_index * PieceLength)
    /\ UNCHANGED << storeVars, histVars, sessionVars, callVars, engineVars,
                    lifeVars, handled, files, announceVars, lockVars >>

NextWrite == \E i \in Pieces : WritePiece(i)

SpecWrite == InitWrite /\ [][NextWrite]_vars

\* -------------------------------------------------------------- properties
\* the blocks of piece p
BlocksOf(p) == {b \in BlockIds : b[1] = p}

\* a peer that is Active, does not choke us, advertises every piece, and
\* that we have told we are interested
Serving(s) ==
    /\ \E k \in DOMAIN peers : peers[k] = s
    /\ can_request(peer[s])
    /\ \A p \in Pieces : has_piece(peer[s], p)

\* run() has returned with every piece verified
DownloadDone ==
    /\ epc = "exit"
    /\ is_complete(pieces, completed_pieces)
    /\ \A p \in Pieces : pieces[p].completed /\ pieces[p].verified

\* C1: if from some point on a peer stays Active and unchoking, advertises
\* every piece and answers every request sent to it with the correct block,
\* then eventually every piece is verified and run() terminates.
C1_EventuallyComplete == (<>[]Serving("good")) => <>DownloadDone

\* a block is marked requested, no session holds a request for it, and the
\* session it was requested from has been removed from the session map
C1_Witness ==
    /\ Serving("good")
    /\ peers = << "good" >>
    /\ wire = {}
    /\ epc = "loop"
    /\ \E b \in BlockIds :
           /\ pieces[b[1]].blocks[b[2]].requested
           /\ ~pieces[b[1]].blocks[b[2]].received
           /\ peer["good"].pending_requests = {}

\* C2: get_next_request never returns a block that is received or
\* requested: the block it returns was neither immediately before the call,
\* it is requested after the call, and no block is handed out a second time
\* while it stays requested.
C2_NextRequestFresh ==
    /\ \A b \in BlockIds : grants[b] <= 1
    /\ (last.op = "get_next_request" /\ last.ret # << >>) =>
           /\ last.fresh
           /\ pieces[last.ret[1]].blocks[BlockAt(last.ret[1], last.ret[2], last.ret[3])].requested

\* a block was handed out while another one is held and a third is received
C2_Witness ==
    /\ last.op = "get_next_request" /\ last.ret # << >>
    /\ \E b \in BlockIds :
           /\ pieces[b[1]].blocks[b[2]].requested
           /\ ~pieces[b[1]].blocks[b[2]].received
           /\ << b[1], pieces[b[1]].blocks[b[2]].offset >> # << last.ret[1], last.ret[2] >>
    /\ \E b \in BlockIds : pieces[b[1]].blocks[b[2]].received

\* C4: once every block of a piece has been ingested with its original
\* bytes, in any order and with any repetition, the piece is completed and
\* verified, its index is in completed_pieces and on_piece_completed was
\* invoked once for it; it is never invoked a second time for a piece index.
\* Ingested: delivered to add_piece_data when no other bytes were ever
\* delivered for the piece, or held by the piece as a received block.
C4_VerifiedOnce ==
    \A p \in Pieces :
        /\ cbCalls[p] <= 1
        /\ (\/ p \notin tainted /\ BlocksOf(p) \subseteq goodIngested
            \/ \A i \in 1 .. Len(pieces[p].blocks) :
                   /\ pieces[p].blocks[i].received
                   /\ pieces[p].data[i] = OrigVal(p, i)) =>
               /\ pieces[p].completed /\ pieces[p].verified
               /\ p \in completed_pieces
               /\ cbCalls[p] = 1

\* the two-block piece is verified and a block of it was delivered again
C4_Witness ==
    /\ 0 \notin tainted /\ BlocksOf(0) \subseteq goodIngested
    /\ cbCalls[0] = 1
    /\ last.op = "add_piece_data" /\ last.piece = 0
    /\ BlockAt(0, last.offset, last.data.len) # 0
    /\ ~last.callback

\* C5: when the last missing block of a piece is ingested and the buffer
\* does not hash to the expected digest, the piece is as it was created
\* (not completed, not verified, zero buffer, no block received or
\* requested), its index is not in completed_pieces, on_piece_completed is
\* not invoked and nothing is written, and get_next_request for an available
\* set holding the piece offers a block of it.
C5_CorruptReset ==
    (last.op = "add_piece_data" /\ last.lastMissing /\ last.mismatch) =>
        LET p == last.piece
        IN  /\ pieces[p] = NewPiece(p)
            /\ p \notin completed_pieces
            /\ ~last.callback
            /\ cbCalls[p] = 0
            /\ \A w \in written : w.piece_index # p
            /\ get_next_request(pieces, completed_pieces, << p >>).ret # << >>
            /\ get_next_request(pieces, completed_pieces, << p >>).ret[1] = p

\* the two-block piece was just reset, and the other piece has a block requested
C5_Witness ==
    /\ last.op = "add_piece_data" /\ last.lastMissing /\ last.mismatch
    /\ last.piece = 0
    /\ pieces[1].blocks[1].requested

\* C6: every call of write_piece carries the whole buffer of a piece, and
\* the buffer hashes to the expected digest of that piece index.
C6_OnlyVerifiedWritten ==
    \A w \in written :
        /\ w.piece_index \in Pieces
        /\ Len(w.piece_data) = Len(pieces[w.piece_index].blocks)
        /\ sha1_hash(w.piece_data) = get_piece_hash(w.piece_index)

\* a piece was written that had been reset for a digest mismatch before
C6_Witness ==
    \E w \in written : w.piece_index \in tainted /\ w.piece_index = 0

\* C3: a session never holds more than max_requests pending requests.
C3_PendingAtMostFive ==
    \A s \in Sessions : total_pending(peer[s]) <= max_requests

\* a session holds five pending requests while a request_piece call is
\* under way
C3_Witness ==
    \E s \in Sessions : total_pending(peer[s]) = max_requests /\ epc = "rp_check"

\* Active: connected with the handshake completed
Active(c) == c.connected /\ c.handshake_completed

\* C7: can_request() is true iff the session is Active, the peer does not
\* choke us, we are interested and fewer than 5 requests are outstanding.
C7_CanRequestIff ==
    \A s \in Sessions :
        can_request(peer[s]) <=>
            (Active(peer[s]) /\ ~peer[s].peer_choking /\ peer[s].am_interested
             /\ total_pending(peer[s]) < 5)

\* the refusal conditions of request_piece that C8 states
C8_ShouldRefuse(c, req) ==
    \/ ~Active(c) \/ c.peer_choking \/ ~c.am_interested
    \/ ~has_piece(c, req[1])
    \/ total_pending(c) >= 5

\* C8: request_piece returns refused, sends nothing and leaves the pending
\* set unchanged iff one of the five conditions holds; otherwise it goes on
\* to send, returns accepted and adds (begin, length) to the pending set.
C8_RefusedIff ==
    [][/\ (epc = "rp_check" /\ epc' # epc) =>
              IF C8_ShouldRefuse(peer[ecall.s], ecall.req)
              THEN epc' = ecall.to /\ peer' = peer /\ wire' = wire
                   /\ lastWrite' = lastWrite
              ELSE epc' = "rp_send"
       /\ (epc = "rp_track" /\ epc' # epc) =>
              /\ epc' = ecall.to
              /\ ecall.req \in peer'[ecall.s].pending_requests]_vars

\* five requests are pending and can_request() holds
C7_Witness ==
    \E s \in Sessions :
        total_pending(peer[s]) = 5 /\ can_request(peer[s])

\* a request is pending on a session that never declared interest
C8_Witness ==
    \E s \in Sessions :
        /\ ~peer[s].am_interested /\ dpc[s] = "interested"
        /\ peer[s].pending_requests # {}
        /\ lastWrite = "cannot"

\* request_piece has passed its guards, the peer has choked us since, and
\* the request is about to be written
C9_Witness ==
    /\ epc = "rp_send"
    /\ peer[ecall.s].connected /\ peer[ecall.s].peer_choking
    /\ peer[ecall.s].am_interested

\* C9: a request is written to a peer's socket only when can_request() holds
\* for that session at the moment of the write.
C9_WriteOnlyWhenCanRequest == lastWrite # "cannot"

\* C10: a piece message removes exactly the pending entry (index, begin,
\* len(block)) when it is present and nothing otherwise, and the block is
\* passed to on_piece_received either way; a request is refused while five
\* are pending and is not refused for the pending count once it is below
\* five.
C10_PieceResolvesPending ==
    [][/\ \A m \in PieceMsgInputs :
              HandlePieceRecorded("arb", m[1], m[2], [len |-> m[3], val |-> 1]) =>
                  /\ peer'["arb"].pending_requests =
                         peer["arb"].pending_requests \ {m}
                  /\ cb' = << m[1], m[2], [len |-> m[3], val |-> 1] >>
       /\ (epc = "rp_check" /\ epc' # epc) =>
              LET c == peer[ecall.s]
              IN  /\ total_pending(c) >= 5 => epc' = ecall.to
                  /\ (total_pending(c) < 5 /\ c.connected /\ ~c.peer_choking
                      /\ has_piece(c, ecall.req[1])) => epc' = "rp_send"]_vars

\* five requests are pending again, one of them for a block whose piece
\* message was the last one handled
C10_Witness ==
    /\ cb # << >>
    /\ << cb[1], cb[2], cb[3].len >> \in peer["arb"].pending_requests
    /\ total_pending(peer["arb"]) = 5
    /\ epc = "idle"

\* C17: add_piece_data called with a piece index that does not exist, or with
\* an (offset, length) that is the (offset, length) of no block of the piece,
\* returns False and leaves every block flag, every buffer and the set of
\* completed pieces as they were.
C17_MalformedRejected ==
    [][(/\ last'.op = "add_piece_data"
        /\ BlockAt(last'.piece, last'.offset, last'.data.len) = 0)
       => (/\ last'.ret = FALSE
           /\ pieces' = pieces
           /\ completed_pieces' = completed_pieces)]_vars

\* a block that matches nothing has been offered to a completed piece
C17_Witness ==
    /\ last.op = "add_piece_data"
    /\ last.piece \in completed_pieces
    /\ BlockAt(last.piece, last.offset, last.data.len) = 0

\* C18: add_piece_data called again with a block that the piece, not yet
\* complete, has already received returns the success value of the first call
\* (True) and leaves the state as it was.
C18_DuplicateAccepted ==
    [][(/\ last'.op = "add_piece_data"
        /\ BlockAt(last'.piece, last'.offset, last'.data.len) # 0
        /\ ~pieces[last'.piece].completed
        /\ LET b == BlockAt(last'.piece, last'.offset, last'.data.len)
           IN  /\ pieces[last'.piece].blocks[b].received
               /\ pieces[last'.piece].data[b] = last'.data.val)
       => (/\ last'.ret = TRUE
           /\ pieces' = pieces
           /\ completed_pieces' = completed_pieces)]_vars

\* the same block has been offered a second time to a piece still incomplete
C18_Witness ==
    /\ last.op = "add_piece_data"
    /\ last.ret = FALSE
    /\ BlockAt(last.piece, last.offset, last.data.len) # 0
    /\ ~pieces[last.piece].completed
    /\ LET b == BlockAt(last.piece, last.offset, last.data.len)
       IN  /\ pieces[last.piece].blocks[b].received
           /\ pieces[last.piece].data[b] = last.data.val

\* C19: every block that is received was marked requested before, also when
\* it came in a piece message nobody asked for.
C19_ReceivedWasRequested ==
    \A p \in Pieces : \A b \in 1 .. Len(pieces[p].blocks) :
        pieces[p].blocks[b].received => pieces[p].blocks[b].requested

\* a block was ingested from a piece message of a session that has no request
\* in flight, and the block was never handed out
C19_Witness ==
    /\ peer["arb"].pending_requests = {}
    /\ \E p \in Pieces : \E b \in 1 .. Len(pieces[p].blocks) :
           /\ pieces[p].blocks[b].received
           /\ ~pieces[p].blocks[b].requested

\* a full 68-byte handshake with the 19-byte protocol string and the local
\* info_hash at the places the protocol gives them
ValidHandshake(stream) ==
    /\ Len(stream) >= 68
    /\ stream[1] = 19
    /\ SubSeq(stream, 2, 20) = pstr
    /\ SubSeq(stream, 29, 48) = info_hash

\* two handshakes that differ at most in the peer_id (bytes 49 .. 68)
SameButPeerId(a, b) ==
    /\ Len(a) = 68
    /\ Len(b) = 68
    /\ SubSeq(a, 1, 48) = SubSeq(b, 1, 48)

\* C11: handshake_completed becomes true and the receive loop starts only in
\* a handshake step that read a full 68-byte remote handshake with the 19-byte
\* protocol string and the local info_hash; a short read, another protocol
\* string or another info_hash leaves the session disconnected, not Active,
\* with no receive loop; the remote peer_id makes no difference.
C11_ActiveOnlyAfterValidHandshake ==
    [][\A s \in {"arb"} :
        /\ (\/ peer'[s].handshake_completed /\ ~peer[s].handshake_completed
            \/ rpc'[s] = "run" /\ rpc[s] # "run")
           => \E stream \in RemoteStreams :
                  ValidHandshake(stream) /\ Handshake(s, stream, FALSE)
        /\ \A stream \in RemoteStreams, f \in BOOLEAN :
               (Handshake(s, stream, f) /\ ~ValidHandshake(stream))
               => /\ ~peer'[s].connected
                  /\ ~peer'[s].running
                  /\ ~peer'[s].handshake_completed
                  /\ rpc'[s] = "off"
                  /\ dpc'[s] = "done"
        /\ \A a, b \in RemoteStreams, f \in BOOLEAN :
               SameButPeerId(a, b)
               => (Handshake(s, a, f) <=> Handshake(s, b, f))]_vars

\* the session is Active and its receive loop runs
C11_Witness ==
    /\ Active(peer["arb"])
    /\ peer["arb"].running
    /\ rpc["arb"] = "run"

\* C12: over the lifetime of a session socket.close() is called once on its
\* socket, however the disconnect() calls of the dial thread, the receive
\* thread and stop() interleave.
C12_ClosedOnce == \A s \in Sessions : closes[s] <= 1

\* two threads are past the test `if self.socket` of disconnect() together
C12_Witness ==
    \E t, u \in Threads :
        /\ t # u
        /\ dcall["arb"][t] = "close"
        /\ dcall["arb"][u] = "close"

\* C13: once a disconnect() call on a session has returned, the session is
\* not connected any more, completes no handshake and starts no receive loop.
C13_DisconnectedAbsorbing ==
    [][\A s \in executed :
        /\ ~peer'[s].connected
        /\ peer'[s].handshake_completed => peer[s].handshake_completed
        /\ rpc'[s] = "run" => rpc[s] = "run"]_vars

\* stop() has disconnected a session whose dial thread is still in connect()
C13_Witness ==
    /\ "arb" \in executed
    /\ spc # "idle"
    /\ dpc["arb"] = "dial"

\* frames the message table gives no effect: keep-alive, request, cancel and
\* the tags past cancel
NoEffectFrame(m) == m.len = 0 \/ m.tag \in {6, 8} \/ m.tag > 8

\* C14: a choke/unchoke frame sets peer_choking to true/false and an
\* interested/not-interested frame sets peer_interested to true/false, and
\* nothing else; a keep-alive, a request, a cancel and a frame with an unknown
\* tag leave the session (flags, availability, pending requests) as it was;
\* none of these frames sends anything, invokes a callback or ends the session.
C14_InboundFrameEffect ==
    [][\A s \in {"arb"} : \A m \in {handled'} \cap InboundMessages :
        RecvMessage(s, m)
        => /\ m.len > 0 /\ m.tag = 0
              => peer'[s] = [peer[s] EXCEPT !.peer_choking = TRUE]
           /\ m.len > 0 /\ m.tag = 1
              => peer'[s] = [peer[s] EXCEPT !.peer_choking = FALSE]
           /\ m.len > 0 /\ m.tag = 2
              => peer'[s] = [peer[s] EXCEPT !.peer_interested = TRUE]
           /\ m.len > 0 /\ m.tag = 3
              => peer'[s] = [peer[s] EXCEPT !.peer_interested = FALSE]
           /\ NoEffectFrame(m) => peer'[s] = peer[s]
           /\ (NoEffectFrame(m) \/ m.tag \in 0 .. 3)
              => /\ wire' = wire
                 /\ lastWrite' = lastWrite
                 /\ cb' = cb
                 /\ Active(peer'[s])
                 /\ peer'[s].running
                 /\ rpc'[s] = "run"]_vars

\* a frame with an unknown tag was read by a session that has a request
\* pending and an availability bitmap, and the session is still Active
C14_Witness ==
    /\ handled.tag > 8
    /\ Active(peer["arb"])
    /\ peer["arb"].pending_requests # {}
    /\ peer["arb"].peer_interested

\* C15: after an Active session has handled a have frame for a piece index
\* below the piece count, has_piece of that index is true, whether a bitfield
\* came before or not.
C15_HaveSetsBit ==
    (/\ Active(peer["arb"])
     /\ handled.len > 0
     /\ handled.tag = 4
     /\ Len(handled.payload) >= 4
     /\ bytes_to_int(handled.payload) < get_total_pieces)
    => has_piece(peer["arb"], bytes_to_int(handled.payload))

\* a have frame for piece 0 was the first frame of the session
C15_Witness ==
    /\ Active(peer["arb"])
    /\ handled = Frame(5, 4, int_to_bytes(0, 4))
    /\ peer["arb"].peer_pieces = << >>

\* the pieces that k successive get_next_request calls return
RECURSIVE returned_pieces(_, _, _, _)
returned_pieces(ps, cp, order, k) ==
    IF k = 0 THEN {}
    ELSE LET r == get_next_request(ps, cp, order)
         IN  IF r.ret = << >> THEN {}
             ELSE {r.ret[1]} \cup returned_pieces(r.pieces, cp, order, k - 1)

\* C16: on a session whose availability is a bitfield of all zeros no request
\* is handed out, no request_piece call is made and nothing was written; on a
\* session whose availability is a bitfield of all ones, get_next_request
\* called with the pieces of the session returns, in the calls of the engine's
\* passes, a block of every piece that is not completed and has a missing
\* block, and request_piece does not refuse the piece for lack of
\* availability.
C16_BitfieldRequestable ==
    \A s \in {"arb"} :
        /\ peer[s].peer_pieces = AllZeros
           => /\ available_pieces(peer[s]) = {}
              /\ ecall = NoCall
              /\ lastWrite = "none"
              /\ peer[s].pending_requests = {}
              /\ \A b \in BlockIds : ~pieces[b[1]].blocks[b[2]].requested
        /\ peer[s].peer_pieces = AllOnes
           => \A p \in Pieces \ completed_pieces :
                  get_missing_blocks(pieces[p]) # << >>
                  => /\ \A order \in Perms(available_pieces(peer[s]) \cap Pieces) :
                            p \in returned_pieces(pieces, completed_pieces, order,
                                                  Cardinality(BlockIds))
                     /\ (can_request(peer[s]) /\ total_pending(peer[s]) < max_requests)
                        => ~request_piece_refuses(peer[s], p)

\* a session with a bitfield of all ones has a request pending while the
\* other piece still has a block to hand out
C16_Witness ==
    /\ peer["arb"].peer_pieces = AllOnes
    /\ can_request(peer["arb"])
    /\ peer["arb"].pending_requests # {}
    /\ \E p \in Pieces \ completed_pieces : get_missing_blocks(pieces[p]) # << >>

RECURSIVE SumLengths(_)
SumLengths(ws) ==
    IF ws = << >> THEN 0 ELSE ws[1].length + SumLengths(Tail(ws))

\* the bytes [lo, hi) of the torrent that file k and the bytes [a, b) share
Shared(k, a, b) ==
    [lo |-> Max(a, files[k].offset),
     hi |-> Min(b, files[k].offset + files[k].length)]

\* C20: write_piece(i, P) with len(P) the length of piece i writes, for each
\* file that shares bytes with [i*piece_length, i*piece_length + len(P)) and
\* for no other file, once, the slice of P they share at the file offset
\* (start of the shared range - start of the file); the slices are disjoint
\* and their lengths add up to len(P).
C20_WritesIntersectingSlices ==
    \A i \in Pieces :
        fwrites[i].len >= 0
        => LET a == i * PieceLength
               b == a + fwrites[i].len
               ws == fwrites[i].writes
               hit == {k \in 1 .. Len(files) : Shared(k, a, b).lo < Shared(k, a, b).hi}
           IN  /\ {ws[j].file : j \in 1 .. Len(ws)} = hit
               /\ Len(ws) = Cardinality(hit)
               /\ \A j \in 1 .. Len(ws) :
                      LET sh == Shared(ws[j].file, a, b)
                      IN  /\ ws[j].position = sh.lo - files[ws[j].file].offset
                          /\ ws[j].from = sh.lo - a
                          /\ ws[j].length = sh.hi - sh.lo
                          /\ ws[j].position + ws[j].length <= files[ws[j].file].length
               /\ \A j, l \in 1 .. Len(ws) :
                      j # l => \/ ws[j].from + ws[j].length <= ws[l].from
                               \/ ws[l].from + ws[l].length <= ws[j].from
               /\ SumLengths(ws) = fwrites[i].len

\* piece 0 was written into three files or more and the shorter last piece
\* into two or more
C20_Witness ==
    /\ fwrites[0].len = PieceLength
    /\ Len(fwrites[0].writes) >= 3
    /\ fwrites[get_total_pieces - 1].len = TotalLength - (get_total_pieces - 1) * PieceLength
    /\ fwrites[get_total_pieces - 1].len < PieceLength
    /\ Len(fwrites[get_total_pieces - 1].writes) >= 2

\* the pieces of `available` that are not completed and have a block neither
\* received nor requested
Candidates(available) ==
    {p \in (available \cap Pieces) \ completed_pieces :
        get_missing_blocks(pieces[p]) # << >>}

\* the request the selection rule names: the candidate with the fewest
\* missing blocks, the lowest index among equals, its missing block of the
\* lowest offset; << >> when there is no candidate
ExpectedRequest(available) ==
    IF Candidates(available) = {} THEN << >>
    ELSE LET p == CHOOSE c \in Candidates(available) :
                      \A d \in Candidates(available) :
                          LET nc == Len(get_missing_blocks(pieces[c]))
                              nd == Len(get_missing_blocks(pieces[d]))
                          IN  nc < nd \/ (nc = nd /\ c <= d)
             b == Head(get_missing_blocks(pieces[p]))
         IN  << p, pieces[p].blocks[b].offset, pieces[p].blocks[b].length >>

\* C25: get_next_request(available_set) returns the lowest missing block of
\* the candidate piece with the fewest missing blocks, the lowest piece index
\* among candidates with equally few, and None exactly when there is no
\* candidate.
C25_FewestMissingLowestIndex ==
    [][\A a \in SUBSET PieceInputs : \A o \in Perms(a \cap Pieces) :
        ApiGetNextRequest(a, o) => last'.ret = ExpectedRequest(a)]_vars

\* a call has returned a block of piece 1 while piece 0 had as few missing
\* blocks
C25_Witness ==
    /\ last.op = "get_next_request"
    /\ last.ret # << >>
    /\ last.ret[1] = 1
    /\ Len(get_missing_blocks(pieces[0])) = 1
    /\ Len(get_missing_blocks(pieces[1])) = 0
    /\ pieces[1].blocks[1].requested /\ ~pieces[1].blocks[1].received

\* the session is in the session map
InMap(s) == \E k \in DOMAIN peers : peers[k] = s

\* C24: once a session that held pending requests is disconnected and reaped,
\* no block that was pending on it (and on no other session) is still marked
\* requested without being received.
C24_PendingAbandoned ==
    \A s \in {"arb"} :
        (/\ ~peer[s].connected
         /\ dpc[s] = "done"
         /\ rpc[s] = "exited"
         /\ ~InMap(s)
         /\ epc = "loop")
        => \A req \in peer[s].pending_requests :
               LET b == BlockAt(req[1], req[2], req[3])
               IN  b # 0 => \/ ~pieces[req[1]].blocks[b].requested
                            \/ pieces[req[1]].blocks[b].received

\* a session was disconnected and reaped while a request it had sent was not
\* answered
C24_Witness ==
    /\ ~peer["arb"].connected
    /\ rpc["arb"] = "exited"
    /\ ~InMap("arb")
    /\ epc = "loop"
    /\ peer["arb"].pending_requests # {}

\* C26: the reaping step removes a session from the session map only when it
\* is disconnected; a session whose dial thread is still in connect()
\* (dialing or in the handshake) stays in the map.
C26_ReapsOnlyDisconnected ==
    [][\A s \in Sessions :
        (InMap(s) /\ ~InMap(s)') => dpc[s] \notin {"dial", "handshake"}]_vars

\* a session is Active and is not in the session map
C26_Witness ==
    /\ Active(peer["arb"])
    /\ rpc["arb"] = "run"
    /\ ~InMap("arb")

\* the byte of the torrent that is at position q of file k: that of the last
\* segment written over q, -1 where nothing was written (zero fill)
ContentAt(k, q) ==
    LET over == {j \in 1 .. Len(disk[k].segs) :
                    /\ disk[k].segs[j].position <= q
                    /\ q < disk[k].segs[j].position + disk[k].segs[j].length}
    IN  IF over = {} THEN -1
        ELSE LET j == CHOOSE x \in over : \A y \in over : y <= x
             IN  disk[k].segs[j].src + (q - disk[k].segs[j].position)

\* positions of file k that decide its content: between two of them that
\* follow each other no segment begins or ends
Probes(k) ==
    LET marks == {0, files[k].length - 1, disk[k].size - 1}
                 \cup UNION {{disk[k].segs[j].position - 1,
                              disk[k].segs[j].position,
                              disk[k].segs[j].position + disk[k].segs[j].length - 1,
                              disk[k].segs[j].position + disk[k].segs[j].length} :
                                j \in 1 .. Len(disk[k].segs)}
    IN  {q \in marks : 0 <= q /\ q < Max(files[k].length, disk[k].size)}

\* write_piece was called for every piece
AllWritten == \A i \in Pieces : fwrites[i].len >= 0

\* C21: for every file map and every order of the write_piece calls, once
\* every piece was written, file k holds at each position q the byte
\* (offset of k + q) of the torrent and nothing more, where the offset of k is
\* the sum of the lengths of the files before it: the files concatenated in
\* file-map order are the original stream.
C21_ConcatenationIsStream ==
    AllWritten
    => \A k \in 1 .. Len(files) :
           /\ files[k].offset = offset_of([j \in 1 .. Len(files) |-> files[j].length], k)
           /\ files[k].length > 0 => disk[k].exists
           /\ disk[k].exists => disk[k].size = files[k].length
           /\ \A q \in Probes(k) : ContentAt(k, q) = files[k].offset + q

\* the pieces were written last piece first into three files or more
C21_Witness ==
    /\ AllWritten
    /\ Len(files) >= 3
    /\ \E k \in 1 .. Len(files) :
           /\ Len(disk[k].segs) = 2
           /\ disk[k].segs[1].src > disk[k].segs[2].src

\* FileManager.verify_file_integrity: every file is there with its size
verify_file_integrity(d, fs) ==
    \A k \in 1 .. Len(fs) : d[k].exists /\ d[k].size = fs[k].length

\* C22: after every piece was written, every file entry of the file map is on
\* disk with its declared length (verify_file_integrity() returns true), for
\* every file map, entries of length 0 included.
C22_FilesAtDeclaredLength ==
    AllWritten => verify_file_integrity(disk, files)

\* every piece was written and the file of an entry of length 0 was not
\* created
C22_Witness ==
    /\ AllWritten
    /\ \E k \in 1 .. Len(files) : files[k].length = 0 /\ ~disk[k].exists

\* C23: after stop() has returned, running is false and every session the
\* engine has created is disconnected, with no receive loop running, and stays
\* so.
C23_StoppedMeansDisconnected ==
    spc = "returned"
    => /\ ~running
       /\ \A s \in Sessions :
              dpc[s] # "new" => ~peer[s].connected /\ ~peer[s].running

\* stop() has returned while the dial thread of a session it disconnected was
\* still in connect()
C23_Witness ==
    /\ spc = "returned"
    /\ "arb" \in executed
    /\ dpc["arb"] = "dial"

\* ------------------------------------------------- Tracker announces
\* BitTorrentClient.max_peers
max_peers == 30

\* the _announce_to_tracker calls of a run that are followed
MaxAnnounces == 3

\* the endpoints of the swarm, and those whose peer accepts a connection
Endpoints == 1 .. (max_peers + 1)
Connectable == {1, 2}

\* the ascending list of the endpoints a .. b
Range(a, b) == [k \in 1 .. (b - a + 1) |-> a + k - 1]

\* TrackerClient.announce: the peer lists the tracker can return, to the
\* periodic announce the first max_peers endpoints and to an announce made by
\* a thread the last endpoint; [] is also what announce returns when every
\* tracker has failed
TrackerAnswers(by) ==
    {<< >>,
     IF by = "loop" THEN Range(1, max_peers)
     ELSE Range(max_peers + 1, max_peers + 1)}

\* (ip, port) in self.peers
InPeers(e) == \E k \in DOMAIN peers : peers[k] = e

\* threading.Thread(target=self._announce_to_tracker) or the call made by
\* _download_loop itself, before the event is chosen
NewCall(by) == [by |-> by, pc |-> "announce", todo |-> << >>]

\* _download_loop: the loop condition and the periodic announce; `due` is
\* current_time - last_announce > announce_interval, which holds on the first
\* pass since last_announce starts at 0
DownloadLoop(due) ==
    /\ epc = "loop"
    /\ IF running /\ ~is_complete(pieces, completed_pieces)
       THEN IF ~announced \/ due
            THEN /\ Len(calls) < MaxAnnounces
                 /\ calls' = Append(calls, NewCall("loop"))
                 /\ announced' = TRUE
                 /\ epc' = "announce"
            ELSE /\ epc' = "manage"
                 /\ UNCHANGED << calls, announced >>
       ELSE /\ epc' = "exit"
            /\ UNCHANGED << calls, announced >>
    /\ UNCHANGED << storeVars, histVars, sessionVars, ecall, peers, running,
                    etodo, lifeVars, handled, fileVars, conn, events, lockVars >>

\* _announce_to_tracker, lines 152-153: the event is chosen from the size of
\* the session map and the tracker returns a peer list
AnnounceCall(n, answer) ==
    /\ n \in DOMAIN calls
    /\ calls[n].pc = "announce"
    /\ answer \in TrackerAnswers(calls[n].by)
    /\ events' = Append(events, IF Len(peers) = 0 THEN "started" ELSE "empty")
    /\ calls' = [calls EXCEPT ![n].pc = "check", ![n].todo = answer]
    /\ UNCHANGED << storeVars, histVars, sessionVars, callVars, engineVars,
                    lifeVars, handled, fileVars, conn, lockVars >>

\* _announce_to_tracker, lines 158-159: the next endpoint of the peer list is
\* tested against the session map; at the end of the list the call returns
AnnounceCheck(n) ==
    /\ n \in DOMAIN calls
    /\ calls[n].pc = "check"
    /\ IF calls[n].todo = << >>
       THEN /\ calls' = [calls EXCEPT ![n].pc = "done"]
            /\ epc' = IF calls[n].by = "loop" THEN "manage" ELSE epc
       ELSE /\ calls' = IF ~InPeers(Head(calls[n].todo)) /\ Len(peers) < max_peers
                        THEN [calls EXCEPT ![n].pc = "add"]
                        ELSE [calls EXCEPT ![n].todo = Tail(@)]
            /\ epc' = epc
    /\ UNCHANGED << storeVars, histVars, sessionVars, ecall, engineVars,
                    lifeVars, handled, fileVars, conn, events, lockVars >>

\* _add_peer: a new session, not connected, is stored under the endpoint
add_peer(ps, e) ==
    IF \E k \in DOMAIN ps : ps[k] = e THEN ps ELSE Append(ps, e)

\* _announce_to_tracker, line 160: _add_peer for the endpoint that passed
\* the test
AddPeer(n) ==
    /\ n \in DOMAIN calls
    /\ calls[n].pc = "add"
    /\ peers' = add_peer(peers, Head(calls[n].todo))
    /\ conn' = conn \ {Head(calls[n].todo)}
    /\ calls' = [calls EXCEPT ![n].pc = "check", ![n].todo = Tail(@)]
    /\ UNCHANGED << storeVars, histVars, sessionVars, callVars, running,
                    announced, etodo, lifeVars, handled, fileVars, events, lockVars >>

\* _connect_peer: connect() of the session stored under e succeeds
ConnectOk(e) ==
    /\ InPeers(e)
    /\ e \in Connectable \ conn
    /\ conn' = conn \cup {e}
    /\ UNCHANGED << storeVars, histVars, sessionVars, callVars, engineVars,
                    lifeVars, handled, fileVars, calls, events, lockVars >>

\* the loop thread starts to iterate over self.peers in
\* _manage_peer_connections, _request_pieces_from_peers or
\* _cleanup_disconnected_peers
IterBegin ==
    /\ epc \in {"manage", "request", "cleanup"}
    /\ epc' = IF epc = "manage" THEN "manage_iter"
              ELSE IF epc = "request" THEN "request_iter" ELSE "cleanup_iter"
    /\ etodo' = peers
    /\ UNCHANGED << storeVars, histVars, sessionVars, ecall, peers, running,
                    announced, lifeVars, handled, fileVars, announceVars, lockVars >>

\* the dictionary iterator raises RuntimeError when the size of self.peers
\* has changed since the iteration began; _download_loop catches it, sleeps
\* and starts over
IterRaises == Len(peers) # Len(etodo)

\* _manage_peer_connections: the sessions are counted and a thread that runs
\* _announce_to_tracker is started
ManagePeerConnections ==
    /\ epc = "manage_iter"
    /\ etodo' = << >>
    /\ IF IterRaises
       THEN /\ epc' = "loop"
            /\ calls' = calls
       ELSE /\ epc' = "request"
            /\ IF Cardinality({k \in DOMAIN etodo : etodo[k] \in conn}) < 5
                  /\ Len(peers) < max_peers
               THEN /\ Len(calls) < MaxAnnounces
                    /\ calls' = Append(calls, NewCall("thread"))
               ELSE calls' = calls
    /\ UNCHANGED << storeVars, histVars, sessionVars, ecall, peers, running,
                    announced, lifeVars, handled, fileVars, conn, events, lockVars >>

\* _request_pieces_from_peers: no session of the map can be requested from
RequestPiecesFromPeers ==
    /\ epc = "request_iter"
    /\ epc' = IF IterRaises THEN "loop" ELSE "cleanup"
    /\ etodo' = << >>
    /\ UNCHANGED << storeVars, histVars, sessionVars, ecall, peers, running,
                    announced, lifeVars, handled, fileVars, announceVars, lockVars >>

\* _cleanup_disconnected_peers, lines 212-215: the keys of the sessions that
\* are not connected are collected
CleanupCollect ==
    /\ epc = "cleanup_iter"
    /\ IF IterRaises
       THEN /\ epc' = "loop"
            /\ etodo' = << >>
       ELSE /\ epc' = "cleanup_del"
            /\ etodo' = SelectSeq(etodo, LAMBDA e : e \notin conn)
    /\ UNCHANGED << storeVars, histVars, sessionVars, ecall, peers, running,
                    announced, lifeVars, handled, fileVars, announceVars, lockVars >>

\* _cleanup_disconnected_peers, lines 217-218: the collected keys are deleted
CleanupDelete ==
    /\ epc = "cleanup_del"
    /\ peers' = SelectSeq(peers, LAMBDA e : \A k \in DOMAIN etodo : etodo[k] # e)
    /\ conn' = conn \cap {peers'[k] : k \in DOMAIN peers'}
    /\ epc' = "loop"
    /\ etodo' = << >>
    /\ UNCHANGED << storeVars, histVars, sessionVars, ecall, running, announced,
                    lifeVars, handled, fileVars, calls, events, lockVars >>

\* the download loop, the announce threads it starts and the dial threads
NextAnnounce ==
    \/ \E due \in BOOLEAN : DownloadLoop(due)
    \/ \E n \in 1 .. MaxAnnounces :
       \E answer \in TrackerAnswers("loop") \cup TrackerAnswers("thread") :
           AnnounceCall(n, answer)
    \/ \E n \in 1 .. MaxAnnounces : AnnounceCheck(n)
    \/ \E n \in 1 .. MaxAnnounces : AddPeer(n)
    \/ \E e \in Endpoints : ConnectOk(e)
    \/ IterBegin
    \/ ManagePeerConnections
    \/ RequestPiecesFromPeers
    \/ CleanupCollect
    \/ CleanupDelete

SpecAnnounce == InitEngine /\ [][NextAnnounce]_vars

\* the _announce_to_tracker calls in flight that were started by
\* _manage_peer_connections
Supplementary == {n \in DOMAIN calls : calls[n].by = "thread" /\ calls[n].pc # "done"}

\* C27: the first tracker announce carries 'started' and every later one,
\* periodic or supplementary, carries 'empty'
C27_StartedOnlyFirst ==
    \A k \in DOMAIN events : (events[k] = "started") <=> (k = 1)

\* a later announce was made
C27_Witness == Len(events) >= 2

\* C28: the session map never holds more than max_peers entries
C28_AtMostMaxPeers == Len(peers) <= max_peers

\* two announce calls are in their loop over the peer list and the map is
\* filled up to the limit
C28_Witness ==
    /\ Len(peers) >= max_peers
    /\ Cardinality({n \in DOMAIN calls : calls[n].pc \in {"check", "add"}}) >= 2

\* C29: at most one supplementary announce is in flight
C29_OneSupplementary == Cardinality(Supplementary) <= 1

\* the loop has been through _manage_peer_connections a second time while a
\* supplementary announce was in flight
C29_Witness ==
    /\ Cardinality(Supplementary) >= 1
    /\ epc = "request"
    /\ \E n \in DOMAIN calls : calls[n].by = "thread" /\ n < Len(calls)

\* C30: every insertion into the session map is made by the loop thread, and
\* none while the loop thread iterates over the map
C30_OnlyLoopMutates ==
    [][\A n \in DOMAIN calls :
           AddPeer(n) /\ peers' # peers =>
               /\ calls[n].by = "loop"
               /\ epc \notin {"manage_iter", "request_iter", "cleanup_iter"}]_vars

\* an endpoint was inserted into the session map by an announce
C30_Witness ==
    /\ peers # << >>
    /\ \E n \in DOMAIN calls : calls[n].pc = "check" /\ calls[n].todo # << >>

\* ------------------------------------------------- requested blocks
\* the block is marked requested and was not received
Outstanding(b) ==
    /\ pieces[b[1]].blocks[b[2]].requested
    /\ ~pieces[b[1]].blocks[b[2]].received

\* the request (piece_index, begin, length) that names the block
RequestOf(b) ==
    << b[1], pieces[b[1]].blocks[b[2]].offset, pieces[b[1]].blocks[b[2]].length >>

\* C31: while no request_piece call is in progress, every block that is
\* marked requested and not received is in the pending requests of a
\* connected session; a block handed out by get_next_request does not stay
\* requested when the request_piece that follows is refused.
C31_NoLeakedRequest ==
    ecall = NoCall =>
        \A b \in BlockIds :
            Outstanding(b) =>
                \E s \in Sessions : /\ peer[s].connected
                                    /\ RequestOf(b) \in peer[s].pending_requests

\* request_piece has returned for a block that get_next_request handed out
C31_Witness ==
    /\ ecall = NoCall
    /\ epc = "peers"
    /\ \E b \in BlockIds : Outstanding(b)

\* ------------------------------------------------- locks and shutdown
\* the threads that call the Piece Store and the File Writer: the receive
\* thread of each session, _download_loop, _stats_loop and the main thread
Receivers == Sessions
LockThreads == Receivers \cup {"loop", "stats", "main"}

\* the mutex an operation takes on entry ('with self.lock'): PieceManager.lock
\* or FileManager.lock
LockOf(op) ==
    IF op \in {"write_piece", "close_all_files"} THEN "files" ELSE "store"

\* (variant) close_all_files asks the Piece Store for its statistics while
\* it holds the File Writer mutex
Callees_close_reads_stats(op) ==
    IF op = "add_piece_data" THEN << "write_piece" >>
    ELSE IF op = "close_all_files" THEN << "get_download_stats" >>
    ELSE << >>

\* the locked operations an operation calls while it holds its mutex:
\* add_piece_data invokes on_piece_completed, which calls write_piece;
\* get_download_stats calls get_completion_percentage, which takes no mutex
Callees(op) ==
    IF op = "add_piece_data" THEN << "write_piece" >> ELSE << >>

\* a call of a locked operation by a thread: st is "wait" until the mutex is
\* taken; todo the locked operations it has still to call
Frame0(op, piece_index, offset) ==
    [op |-> op, st |-> "wait", piece_index |-> piece_index, offset |-> offset,
     todo |-> << >>]

Top(t) == stack[t][Len(stack[t])]

Push(t, f) == stack' = [stack EXCEPT ![t] = Append(@, f)]

\* _handle_piece -> _on_piece_received -> add_piece_data, on a session that
\* stop() has not disconnected; the peer sends a block with its original bytes
CallAddPieceData(t, b) ==
    /\ t \in Receivers
    /\ stack[t] = << >>
    /\ spc \in {"idle", "verify", "stop"}
    /\ Push(t, Frame0("add_piece_data", b[1], NewPiece(b[1]).blocks[b[2]].offset))
    /\ UNCHANGED << storeVars, histVars, sessionVars, callVars, engineVars,
                    lifeVars, handled, fileVars, announceVars, lock, handles,
                    closed, observed >>

\* _request_pieces_from_peers -> get_next_request, _stats_loop ->
\* get_download_stats, while self.running
CallStore(t, op) ==
    /\ \/ t = "loop" /\ op = "get_next_request"
       \/ t = "stats" /\ op = "get_download_stats"
    /\ stack[t] = << >>
    /\ running
    /\ Push(t, Frame0(op, -1, -1))
    /\ UNCHANGED << storeVars, histVars, sessionVars, callVars, engineVars,
                    lifeVars, handled, fileVars, announceVars, lock, handles,
                    closed, observed >>

\* 'with self.lock:' of the innermost call and the body of the operation up
\* to the calls it makes; threading.Lock is not reentrant
Enter(t, order) ==
    /\ stack[t] # << >>
    /\ Top(t).st = "wait"
    /\ lock[LockOf(Top(t).op)] = "free"
    /\ lock' = [lock EXCEPT ![LockOf(Top(t).op)] = t]
    /\ LET f == Top(t)
           p == f.piece_index
           len == IF \E i \in DOMAIN NewPiece(p).blocks :
                         NewPiece(p).blocks[i].offset = f.offset
                  THEN NewPiece(p).blocks[
                           CHOOSE i \in DOMAIN NewPiece(p).blocks :
                               NewPiece(p).blocks[i].offset = f.offset].length
                  ELSE 0
       IN  \E r \in {IF f.op = "add_piece_data"
                     THEN add_piece_data(pieces, completed_pieces, p, f.offset,
                                         [len |-> len, val |-> OrigVal(p, 1)])
                     ELSE [pieces |-> IF f.op = "get_next_request"
                                      THEN get_next_request(pieces, completed_pieces,
                                                            order).pieces
                                      ELSE pieces,
                           completed_pieces |-> completed_pieces,
                           callback |-> TRUE]} :
               /\ pieces' = r.pieces
               /\ completed_pieces' = r.completed_pieces
               /\ stack' = [stack EXCEPT ![t][Len(stack[t])] =
                               [f EXCEPT !.st = "in",
                                         !.todo = IF r.callback THEN Callees(f.op)
                                                  ELSE << >>]]
               /\ IF f.op = "write_piece"
                  THEN /\ fwrites' = [fwrites EXCEPT ![p] =
                                         [len |-> get_piece_length(p),
                                          writes |-> write_piece(files, p,
                                                        get_piece_length(p))]]
                       /\ disk' = write_all(disk, files, fwrites'[p].writes,
                                            p * PieceLength)
                       /\ handles' = handles \cup
                              {fwrites'[p].writes[j].file :
                                   j \in DOMAIN fwrites'[p].writes}
                  ELSE /\ UNCHANGED << fwrites, disk >>
                       /\ handles' = IF f.op = "close_all_files" THEN {} ELSE handles
               /\ closed' = (closed \/ f.op = "close_all_files")
    /\ UNCHANGED << written, cbCalls, histVars, sessionVars, callVars, engineVars,
                    lifeVars, handled, files, announceVars, observed >>

\* the innermost call, holding its mutex, calls the next locked operation
CallNested(t) ==
    /\ stack[t] # << >>
    /\ Top(t).st = "in"
    /\ Top(t).todo # << >>
    /\ stack' = [stack EXCEPT ![t] =
                    Append([@ EXCEPT ![Len(@)].todo = Tail(@)],
                           Frame0(Head(Top(t).todo), Top(t).piece_index,
                                  Top(t).offset))]
    /\ UNCHANGED << storeVars, histVars, sessionVars, callVars, engineVars,
                    lifeVars, handled, fileVars, announceVars, lock, handles,
                    closed, observed >>

\* the innermost call leaves its 'with' block and returns
Return(t) ==
    /\ stack[t] # << >>
    /\ Top(t).st = "in"
    /\ Top(t).todo = << >>
    /\ lock' = [lock EXCEPT ![LockOf(Top(t).op)] = "free"]
    /\ stack' = [stack EXCEPT ![t] = SubSeq(@, 1, Len(@) - 1)]
    /\ UNCHANGED << storeVars, histVars, sessionVars, callVars, engineVars,
                    lifeVars, handled, fileVars, announceVars, handles,
                    closed, observed >>

\* start(): the wait loop of the main thread sees is_complete() true
MainObserve ==
    /\ spc = "idle"
    /\ running
    /\ is_complete(pieces, completed_pieces)
    /\ observed' = TRUE
    /\ spc' = "verify"
    /\ UNCHANGED << storeVars, histVars, sessionVars, callVars, engineVars,
                    dcall, closes, executed, handled, fileVars, announceVars,
                    lock, stack, handles, closed >>

\* start(): _verify_download has checked the file sizes; or the wait loop
\* is left by KeyboardInterrupt; stop() is called
MainToStop ==
    /\ spc \in {"idle", "verify"}
    /\ spc' = "stop"
    /\ UNCHANGED << storeVars, histVars, sessionVars, callVars, engineVars,
                    dcall, closes, executed, handled, fileVars, announceVars,
                    lockVars >>

\* stop(): running = False and disconnect() on every session
MainStop ==
    /\ spc = "stop"
    /\ running' = FALSE
    /\ spc' = "cleanup"
    /\ UNCHANGED << storeVars, histVars, sessionVars, callVars, peers, announced,
                    etodo, dcall, closes, executed, handled, fileVars,
                    announceVars, lockVars >>

\* stop(): file_manager.cleanup() calls close_all_files
MainCleanup ==
    /\ spc = "cleanup"
    /\ stack["main"] = << >>
    /\ Push("main", Frame0("close_all_files", -1, -1))
    /\ spc' = "closing"
    /\ UNCHANGED << storeVars, histVars, sessionVars, callVars, engineVars,
                    dcall, closes, executed, handled, fileVars, announceVars,
                    lock, handles, closed, observed >>

\* stop(): cleanup() has returned, stop() returns
MainReturn ==
    /\ spc = "closing"
    /\ stack["main"] = << >>
    /\ spc' = "returned"
    /\ UNCHANGED << storeVars, histVars, sessionVars, callVars, engineVars,
                    dcall, closes, executed, handled, fileVars, announceVars,
                    lockVars >>

NextLocks ==
    \/ \E t \in Receivers, b \in BlockIds : CallAddPieceData(t, b)
    \/ \E t \in {"loop", "stats"} :
       \E op \in {"get_next_request", "get_download_stats"} : CallStore(t, op)
    \/ \E t \in LockThreads : \E order \in Perms(Pieces) : Enter(t, order)
    \/ \E t \in LockThreads : CallNested(t)
    \/ \E t \in LockThreads : Return(t)
    \/ MainObserve
    \/ MainToStop
    \/ MainStop
    \/ MainCleanup
    \/ MainReturn

SpecLocks == Init /\ [][NextLocks]_vars

\* write_piece has returned for every piece
EveryPieceWritten == \A p \in Pieces : fwrites[p] # NoWrites

\* C32: when the main thread has seen is_complete() true, write_piece was
\* called for every piece
C32_CompleteMeansWritten == observed => EveryPieceWritten

\* the main thread has seen is_complete() true
C32_Witness == observed /\ spc = "verify"

\* C33: once close_all_files() has run, the File Writer holds no open file
\* handle: no write_piece opens a file again
C33_ClosedStaysClosed == closed => handles = {}

\* close_all_files() has run and closed a handle that a write had opened
C33_Witness ==
    /\ closed
    /\ spc = "returned"
    /\ \E p \in Pieces : fwrites[p] # NoWrites

\* the mutex a thread waits for, "none" when it does not wait
Wants(t) ==
    IF stack[t] # << >> /\ Top(t).st = "wait" THEN LockOf(Top(t).op) ELSE "none"

\* the thread does not wait, or waits for a mutex that is free
Runnable(t) == Wants(t) = "none" \/ lock[Wants(t)] = "free"

\* the thread can go on once the threads it waits for, one behind the other,
\* have released their mutexes (there are two mutexes)
Unblocked(t) ==
    \/ Runnable(t)
    \/ /\ lock[Wants(t)] # t
       /\ \/ Runnable(lock[Wants(t)])
          \/ /\ lock[Wants(lock[Wants(t)])] \notin {t, lock[Wants(t)]}
             /\ Runnable(lock[Wants(lock[Wants(t)])])

C34_AcceptedOnlyIfSent ==
    [][(epc = "rp_track" /\ epc' # epc) =>
           \/ peer[ecall.s].connected
           \/ peer'[ecall.s].pending_requests = peer[ecall.s].pending_requests]_vars

\* request_piece has returned accepted on a session that the failed send
\* has disconnected
C34_Witness ==
    /\ epc = "idle"
    /\ ~peer["arb"].connected
    /\ rpc["arb"] = "run"
    /\ peer["arb"].pending_requests # {}

\* ------------------------------------------------- the completed set
\* (variant) the request flag and the received flag of every block are cleared
reset_block_requests_all(piece) ==
    [piece EXCEPT !.blocks =
        [i \in DOMAIN piece.blocks |->
            [piece.blocks[i] EXCEPT !.requested = FALSE, !.received = FALSE]]]

\* Piece.reset_block_requests: the request flag of the blocks that were not
\* received is cleared
reset_block_requests(piece) ==
    [piece EXCEPT !.blocks =
        [i \in DOMAIN piece.blocks |->
            IF ~piece.blocks[i].received
            THEN [piece.blocks[i] EXCEPT !.requested = FALSE]
            ELSE piece.blocks[i]]]

\* PieceManager.reset_piece_requests
reset_piece_requests(ps, piece_index) ==
    IF piece_index \in DOMAIN ps
    THEN [ps EXCEPT ![piece_index] = reset_block_requests(ps[piece_index])]
    ELSE ps

\* PieceManager.mark_block_requested: the first block at `offset`
mark_block_requested(ps, piece_index, offset) ==
    IF /\ piece_index \in DOMAIN ps
       /\ \E i \in DOMAIN ps[piece_index].blocks :
              ps[piece_index].blocks[i].offset = offset
    THEN LET at == {i \in DOMAIN ps[piece_index].blocks :
                        ps[piece_index].blocks[i].offset = offset}
             b  == CHOOSE i \in at : \A j \in at : i <= j
         IN  [ps EXCEPT ![piece_index].blocks[b].requested = TRUE]
    ELSE ps

RECURSIVE bytes_of(_, _)
\* get_download_stats, lines 223-225: the lengths of the pieces of the set,
\* added up one after the other
bytes_of(ps, cp) ==
    IF cp = {} THEN 0
    ELSE LET piece_index == CHOOSE i \in cp : TRUE
         IN  ps[piece_index].length + bytes_of(ps, cp \ {piece_index})

\* PieceManager.get_download_stats
get_download_stats(ps, cp) ==
    [total_pieces |-> Cardinality(DOMAIN ps),
     completed_pieces |-> Cardinality(cp),
     bytes_downloaded |-> bytes_of(ps, cp),
     total_bytes |-> TotalLength]

\* add_piece_data(piece_index, offset, data)
LedgerAdd(piece_index, offset, data) ==
    /\ StoreAdd(piece_index, offset, data)
    /\ last' = [op |-> "add_piece_data", ret |-> piece_index]
    /\ UNCHANGED << grants, goodIngested, tainted, cb, lastWrite, sessionVars,
                    callVars, engineVars, lifeVars, handled, fileVars,
                    announceVars, lockVars >>

\* get_next_request(available_pieces)
LedgerNext(available, order) ==
    /\ StoreNext(available, order)
    /\ last' = [op |-> "get_next_request", ret |-> -1]
    /\ UNCHANGED << grants, goodIngested, tainted, cb, lastWrite, sessionVars,
                    callVars, engineVars, lifeVars, handled, fileVars,
                    announceVars, lockVars >>

\* reset_piece_requests(piece_index)
LedgerReset(piece_index) ==
    /\ pieces' = reset_piece_requests(pieces, piece_index)
    /\ last' = [op |-> "reset_piece_requests", ret |-> piece_index]
    /\ UNCHANGED << completed_pieces, written, cbCalls, grants, goodIngested,
                    tainted, cb, lastWrite, sessionVars, callVars, engineVars,
                    lifeVars, handled, fileVars, announceVars, lockVars >>

\* mark_block_requested(piece_index, offset)
LedgerMark(piece_index, offset) ==
    /\ pieces' = mark_block_requested(pieces, piece_index, offset)
    /\ last' = [op |-> "mark_block_requested", ret |-> piece_index]
    /\ UNCHANGED << completed_pieces, written, cbCalls, grants, goodIngested,
                    tainted, cb, lastWrite, sessionVars, callVars, engineVars,
                    lifeVars, handled, fileVars, announceVars, lockVars >>

\* get_download_stats(); the history keeps bytes_downloaded
LedgerStats ==
    /\ last' = [op |-> "get_download_stats",
                ret |-> get_download_stats(pieces, completed_pieces).bytes_downloaded]
    /\ UNCHANGED << storeVars, grants, goodIngested, tainted, cb, lastWrite,
                    sessionVars, callVars, engineVars, lifeVars, handled,
                    fileVars, announceVars, lockVars >>

\* the operations of the Piece Store, each one under the mutex
NextLedger ==
    \/ \E p \in PieceInputs, o \in OffsetInputs, d \in DataInputs :
           LedgerAdd(p, o, d)
    \/ \E a \in {Pieces} : \E o \in Perms(a) : LedgerNext(a, o)
    \/ \E p \in PieceInputs : LedgerReset(p)
    \/ \E p \in PieceInputs, o \in OffsetInputs : LedgerMark(p, o)
    \/ LedgerStats

SpecLedger == Init /\ [][NextLedger]_vars

\* the piece is completed and verified and has every block received
Finished(piece) ==
    piece.completed /\ piece.verified /\ piece_is_complete(piece)

\* the completed set holds the finished pieces and no other
LedgerConsistent ==
    \A i \in Pieces : i \in completed_pieces <=> Finished(pieces[i])

\* the bytes of the torrent that are not in a piece of the set
BytesOutside(cp) ==
    LET rest == Pieces \ cp
        full == rest \ {get_total_pieces - 1}
    IN  PieceLength * Cardinality(full)
        + (IF get_total_pieces - 1 \in rest
           THEN get_piece_length(get_total_pieces - 1) ELSE 0)

\* C36: between the operations of the Piece Store an index is in the
\* completed set iff its piece is completed, verified and fully received; no
\* operation (ingest, get_next_request, reset_piece_requests,
\* mark_block_requested) takes an index out of the set; get_download_stats
\* reports as bytes_downloaded the lengths of the completed pieces, which is
\* total_bytes exactly when is_complete() holds.
C36_CompletedSetConsistent ==
    [][/\ LedgerConsistent
       /\ LedgerConsistent'
       /\ completed_pieces \subseteq completed_pieces'
       /\ last'.op = "get_download_stats" =>
              /\ last'.ret = TotalLength - BytesOutside(completed_pieces')
              /\ (last'.ret = TotalLength) <=>
                     is_complete(pieces', completed_pieces')]_vars

\* reset_piece_requests was called on a piece of the completed set, which is
\* not the whole torrent
C36_Witness ==
    /\ last.op = "reset_piece_requests"
    /\ last.ret \in completed_pieces
    /\ ~is_complete(pieces, completed_pieces)

\* ------------------------------------------------- requests and availability
\* have messages for the last piece and for an index past the piece count
\* that a one-byte bitfield covers
HaveIndexes == {get_total_pieces - 1, get_total_pieces + 3}

\* the engine with one session whose remote peer sends bitfields of all zeros
\* or all ones (six spare bits) and have messages
NextHave ==
    \/ SessionStep("arb")
    \/ RecvZeroBitfield("arb")
    \/ \E i \in HaveIndexes : RecvHave("arb", i)
    \/ EngineStep(<< "arb" >>)

SpecHave == InitEngine /\ [][NextHave]_vars

\* the request names a piece of the torrent and a block that _create_blocks
\* has made for it, of at most BLOCK_SIZE bytes
ValidRequest(req) ==
    /\ req[1] \in 0 .. (get_total_pieces - 1)
    /\ MatchingBlocks(NewPiece(req[1]), req[2], req[3]) # {}
    /\ req[3] <= BLOCK_SIZE

\* C37: every request the engine makes, and so every request that is pending
\* on a session, names an existing piece and an existing block of it of at
\* most 16384 bytes, whatever bits the peer has set past the piece count by
\* its bitfield or by have messages.
C37_RequestsExist ==
    /\ ecall # NoCall => ValidRequest(ecall.req)
    /\ \A s \in Sessions : \A req \in peer[s].pending_requests : ValidRequest(req)

\* a request is made to a peer that has announced, by have messages only, the
\* last piece and an index past the piece count
C37_Witness ==
    /\ ecall # NoCall
    /\ Len(peer["arb"].peer_pieces) > get_total_pieces + 3
    /\ \A i \in DOMAIN peer["arb"].peer_pieces :
           peer["arb"].peer_pieces[i] <=> (i - 1) \in HaveIndexes

\* C38: an interested message or a request message is written to the socket
\* of a session only when handshake_completed is true: send_interested and
\* request_piece transmit nothing between the TCP connect and the validation
\* of the remote handshake.
C38_NothingBeforeHandshake ==
    [][/\ \A s \in Sessions :
              (/\ dpc[s] = "interested" /\ dpc'[s] = "done"
               /\ peer[s].connected /\ ~peer[s].am_interested)
              => peer[s].handshake_completed
       /\ (epc = "rp_send" /\ epc' = "rp_track" /\ peer[ecall.s].connected)
              => peer[ecall.s].handshake_completed]_vars

\* the interested message and a request were written on a session
C38_Witness ==
    /\ peer["arb"].am_interested
    /\ peer["arb"].handshake_completed
    /\ lastWrite = "can"
    /\ peer["arb"].pending_requests # {}

====
